---- MODULE Spec2Model ----
(***************************************************************************)
(* Access gate of the Lead Management Dashboard (src/src/lib/leadSchema.ts, *)
(* imported by the pages as '@/lib/auth'): password check against a stored  *)
(* SHA-256 digest, attempt counting with a time-boxed lockout, and a        *)
(* time-boxed session, all kept in sessionStorage.                          *)
(*                                                                          *)
(* Time is in milliseconds, as Date.now() reports it, measured from the     *)
(* moment the page is loaded.  JavaScript runs every synchronous stretch of *)
(* code to completion, so each action below is one such stretch and reads   *)
(* the clock once; authenticate is split at its only await.                 *)
(*                                                                          *)
(* Around the gate: the config store (src/src/lib/config.ts, localStorage), *)
(* the Settings page that saves the admin password and the Admin page that  *)
(* asks for it (src/src/pages).  Spec is the gate called directly; SpecApp  *)
(* is the gate as the pages drive it.                                       *)
(***************************************************************************)
EXTENDS Integers, Sequences, FiniteSets, TLC

\* ------------------------------------------------------------------------
\* Program constants
\* ------------------------------------------------------------------------
SESSION_DURATION == 30 * 60 * 1000
MAX_LOGIN_ATTEMPTS == 5
LOCKOUT_DURATION == 15 * 60 * 1000

\* ------------------------------------------------------------------------
\* Bounds of the model
\* ------------------------------------------------------------------------
\* number of times the clock is advanced in one behaviour
MaxTicks == 3
\* number of authenticate calls that can exist at once (overlap is allowed
\* only by the specifications that say so)
MaxCallers == 2

\* amounts by which the clock advances: 1 ms and 1 s around the boundaries,
\* 1 ms short of the lockout duration, 29 min 59 s
Steps == {1, 1000, LOCKOUT_DURATION - 1, SESSION_DURATION - 1000}

\* amounts by which the clock advances while the pages are used: 1 s, the
\* lockout duration, 1 ms more than the session duration
AppSteps == {1000, LOCKOUT_DURATION, SESSION_DURATION + 1}

Callers == 1..MaxCallers

\* passwords a user types; "" is the empty input
Passwords == {"", "correct", "wrong"}
\* values crypto.getRandomValues can produce for a session token
Tokens == {"tokenA", "tokenB"}

\* ------------------------------------------------------------------------
\* Values
\* ------------------------------------------------------------------------
\* sessionStorage.getItem returns null for a missing key: an entry is a
\* sequence of length 0 (null) or 1 (the stored value).  The same shape is
\* used for `number | null` and for optional result fields.
NoItem == <<>>
Item(v) == <<v>>

Max(a, b) == IF a >= b THEN a ELSE b
\* Math.ceil(a / b) for an integer a and a positive integer b
Ceil(a, b) == -((-a) \div b)

\* Strings that the code converts to and from numbers are sequences of
\* one-character strings.
DigitChars == <<"0", "1", "2", "3", "4", "5", "6", "7", "8", "9">>
IsDigit(c) == \E d \in 1..10 : DigitChars[d] = c
DigitValue(c) == (CHOOSE d \in 1..10 : DigitChars[d] = c) - 1

\* Number.prototype.toString() of a non-negative integer
RECURSIVE toString(_)
toString(n) ==
    IF n < 10 THEN <<DigitChars[n + 1]>>
    ELSE toString(n \div 10) \o <<DigitChars[(n % 10) + 1]>>

\* the digits at the front of s, read as a decimal number after acc
RECURSIVE parseDigits(_, _)
parseDigits(s, acc) ==
    IF s = <<>> \/ ~IsDigit(Head(s)) THEN acc
    ELSE parseDigits(Tail(s), acc * 10 + DigitValue(Head(s)))

\* parseInt(s, 10): optional sign, then the leading digits; NaN (NoItem) when
\* there is no digit
parseInt(s) ==
    LET neg == s # <<>> /\ Head(s) = "-"
        body == IF s # <<>> /\ Head(s) \in {"-", "+"} THEN Tail(s) ELSE s
    IN  IF body = <<>> \/ ~IsDigit(Head(body)) THEN NoItem
        ELSE Item(IF neg THEN -parseDigits(body, 0) ELSE parseDigits(body, 0))

\* ------------------------------------------------------------------------
\* State
\* ------------------------------------------------------------------------
VARIABLES
    now,             \* Date.now()
    ticks,           \* how often the clock has been advanced
    sessionStorage,  \* the entries adminAuth, adminAuthTime, loginAttempts
    calls,           \* per caller: where its authenticate call stands
    ret,             \* what the operation that ran last returned
    issuedAt,        \* history: when the last session was minted (NoItem
                     \* after clearSession)
    failStreak,      \* history: failed authenticate calls in a row (n), and
                     \* when the call that made them MAX_LOGIN_ATTEMPTS
                     \* returned (at)
    localStorage,    \* the entries leadProcessorConfigEnc, leadProcessorConfig
    page,            \* the route that is mounted
    admin,           \* state of the mounted Admin component
    settings,        \* state of the mounted Settings component
    pendingSave,     \* the saveConfig call waiting for its digest, if any
    lastPassword     \* history: the password typed for the last save that
                     \* was stored (NoItem before the first)

gateVars == <<now, ticks, sessionStorage, calls, ret, issuedAt, failStreak>>
appVars == <<localStorage, page, admin, settings, pendingSave, lastPassword>>
vars == <<gateVars, appVars>>

EmptyStorage ==
    [adminAuth |-> NoItem, adminAuthTime |-> NoItem, loginAttempts |-> NoItem]

IdleCall == [pc |-> "idle", password |-> "", storedPasswordHash |-> ""]

\* the value an operation hands back to its caller
Ret(op, success, value, error, lockoutRemaining, password, storedPasswordHash) ==
    [op |-> op, success |-> success, value |-> value, error |-> error,
     lockoutRemaining |-> lockoutRemaining,
     password |-> password, storedPasswordHash |-> storedPasswordHash]

NoRet(op) == Ret(op, FALSE, 0, "", NoItem, "", "")

\* ------------------------------------------------------------------------
\* leadSchema.ts: the functions of the gate
\* ------------------------------------------------------------------------
\* SHA-256 hex digest of the password.  The digest is written symbolically;
\* distinct passwords have distinct digests and no digest is a password.
hashPassword(password) == "sha256(" \o password \o ")"

\* the digests callers can hold, and "" for no configured password
StoredHashes == {hashPassword(p) : p \in Passwords} \cup {""}

\* variant: the typed password is compared with the stored value as it is
verifyPassword_plain(password, storedHash) ==
    IF password = "" \/ storedHash = "" THEN FALSE
    ELSE password = storedHash

\* variant: every non-empty password is accepted once a digest is stored
verifyPassword_nonEmpty(password, storedHash) ==
    ~(password = "" \/ storedHash = "")

verifyPassword(password, storedHash) ==
    IF password = "" \/ storedHash = "" THEN FALSE
    ELSE hashPassword(password) = storedHash

\* variant: a valid check renews the session (sliding expiry)
isSessionValid_sliding(st, t) ==
    LET token == st.adminAuth
        authTime == st.adminAuthTime
    IN  IF token = NoItem \/ token = Item("")
           \/ authTime = NoItem \/ authTime = Item(<<>>)
        THEN [ret |-> FALSE, storage |-> st]
        ELSE LET parsed == parseInt(authTime[1])
             IN  IF parsed # NoItem /\ t - parsed[1] > SESSION_DURATION
                 THEN [ret |-> FALSE,
                       storage |-> [st EXCEPT !.adminAuth = NoItem,
                                              !.adminAuthTime = NoItem]]
                 ELSE [ret |-> TRUE,
                       storage |-> [st EXCEPT
                                      !.adminAuthTime = Item(toString(t))]]

isSessionValid(st, t) ==
    LET token == st.adminAuth
        authTime == st.adminAuthTime
    IN  IF token = NoItem \/ token = Item("")
           \/ authTime = NoItem \/ authTime = Item(<<>>)
        THEN [ret |-> FALSE, storage |-> st]
        ELSE LET parsed == parseInt(authTime[1])
             IN  \* elapsed is NaN when parsed is, and NaN > x is false
                 IF parsed # NoItem /\ t - parsed[1] > SESSION_DURATION
                 THEN [ret |-> FALSE,
                       storage |-> [st EXCEPT !.adminAuth = NoItem,
                                              !.adminAuthTime = NoItem]]
                 ELSE [ret |-> TRUE, storage |-> st]

\* variant: logging out empties the whole of sessionStorage
clearSession_all(st) ==
    [adminAuth |-> NoItem, adminAuthTime |-> NoItem, loginAttempts |-> NoItem]

clearSession(st) ==
    [st EXCEPT !.adminAuth = NoItem, !.adminAuthTime = NoItem]

getLoginAttempts(st) ==
    IF st.loginAttempts # NoItem THEN st.loginAttempts[1]
    ELSE [count |-> 0, lockoutUntil |-> NoItem]

\* variant: the lockout starts one attempt late (> for >=)
recordFailedAttempt_late(st, t) ==
    LET attempts == getLoginAttempts(st)
        count == attempts.count + 1
        updated == [count |-> count,
                    lockoutUntil |-> IF count > MAX_LOGIN_ATTEMPTS
                                     THEN Item(t + LOCKOUT_DURATION)
                                     ELSE attempts.lockoutUntil]
    IN  [ret |-> updated,
         storage |-> [st EXCEPT !.loginAttempts = Item(updated)]]

\* variant: the updated counter is returned but not written back
recordFailedAttempt_noWrite(st, t) ==
    LET attempts == getLoginAttempts(st)
        count == attempts.count + 1
        updated == [count |-> count,
                    lockoutUntil |-> IF count >= MAX_LOGIN_ATTEMPTS
                                     THEN Item(t + LOCKOUT_DURATION)
                                     ELSE attempts.lockoutUntil]
    IN  [ret |-> updated, storage |-> st]

recordFailedAttempt(st, t) ==
    LET attempts == getLoginAttempts(st)
        count == attempts.count + 1
        updated == [count |-> count,
                    lockoutUntil |-> IF count >= MAX_LOGIN_ATTEMPTS
                                     THEN Item(t + LOCKOUT_DURATION)
                                     ELSE attempts.lockoutUntil]
    IN  [ret |-> updated,
         storage |-> [st EXCEPT !.loginAttempts = Item(updated)]]

clearLoginAttempts(st) == [st EXCEPT !.loginAttempts = NoItem]

\* a number is truthy unless it is 0 (null is NoItem)
Truthy(n) == n # NoItem /\ n[1] # 0

\* variant: the lockout still holds at the instant lockoutUntil (<= for <)
isLockedOut_inclusive(st, t) ==
    LET attempts == getLoginAttempts(st)
    IN  IF Truthy(attempts.lockoutUntil) /\ t <= attempts.lockoutUntil[1]
        THEN [ret |-> TRUE, storage |-> st]
        ELSE IF Truthy(attempts.lockoutUntil) /\ t >= attempts.lockoutUntil[1]
        THEN [ret |-> FALSE, storage |-> clearLoginAttempts(st)]
        ELSE [ret |-> FALSE, storage |-> st]

\* variant: an expired lockout is lifted but the count is kept
isLockedOut_keepCount(st, t) ==
    LET attempts == getLoginAttempts(st)
    IN  IF Truthy(attempts.lockoutUntil) /\ t < attempts.lockoutUntil[1]
        THEN [ret |-> TRUE, storage |-> st]
        ELSE IF Truthy(attempts.lockoutUntil) /\ t >= attempts.lockoutUntil[1]
        THEN [ret |-> FALSE,
              storage |-> [st EXCEPT !.loginAttempts =
                             Item([attempts EXCEPT !.lockoutUntil = NoItem])]]
        ELSE [ret |-> FALSE, storage |-> st]

isLockedOut(st, t) ==
    LET attempts == getLoginAttempts(st)
    IN  IF Truthy(attempts.lockoutUntil) /\ t < attempts.lockoutUntil[1]
        THEN [ret |-> TRUE, storage |-> st]
        ELSE IF Truthy(attempts.lockoutUntil) /\ t >= attempts.lockoutUntil[1]
        THEN [ret |-> FALSE, storage |-> clearLoginAttempts(st)]
        ELSE [ret |-> FALSE, storage |-> st]

\* variant: the remaining time is rounded down
getLockoutRemaining_floor(st, t) ==
    LET attempts == getLoginAttempts(st)
    IN  IF Truthy(attempts.lockoutUntil)
        THEN Max(0, (attempts.lockoutUntil[1] - t) \div 1000)
        ELSE 0

\* variant: the remaining time is left in milliseconds
getLockoutRemaining_ms(st, t) ==
    LET attempts == getLoginAttempts(st)
    IN  IF Truthy(attempts.lockoutUntil)
        THEN Max(0, attempts.lockoutUntil[1] - t)
        ELSE 0

getLockoutRemaining(st, t) ==
    LET attempts == getLoginAttempts(st)
    IN  IF Truthy(attempts.lockoutUntil)
        THEN Max(0, Ceil(attempts.lockoutUntil[1] - t, 1000))
        ELSE 0

\* variant: the countdown lifts an expired lockout as isLockedOut() does
readLockoutRemaining_clears(st, t) ==
    [ret |-> getLockoutRemaining(st, t), storage |-> isLockedOut(st, t).storage]

\* getLockoutRemaining as a call on the storage: what it returns and what it
\* leaves stored (it reads loginAttempts and writes nothing)
readLockoutRemaining(st, t) ==
    [ret |-> getLockoutRemaining(st, t), storage |-> st]

\* the messages authenticate builds
LockedMessage(remaining) ==
    "Account locked. Try again in " \o ToString(Ceil(remaining, 60))
        \o " minutes."
TooManyMessage(remaining) ==
    "Too many failed attempts. Account locked for "
        \o ToString(Ceil(remaining, 60)) \o " minutes."
IncorrectMessage(remainingAttempts) ==
    "Incorrect password. " \o ToString(remainingAttempts) \o " attempt"
        \o (IF remainingAttempts # 1 THEN "s" ELSE "") \o " remaining."

\* variant: the rejection by the lockout does not say how long it lasts
authenticateBegin_noRemaining(st, t, password, storedPasswordHash) ==
    LET locked == isLockedOut(st, t)
    IN  IF locked.ret
        THEN LET remaining == getLockoutRemaining(locked.storage, t)
             IN  [done |-> TRUE, storage |-> locked.storage,
                  result |-> Ret("authenticate", FALSE, 0,
                                 LockedMessage(remaining), NoItem,
                                 password, storedPasswordHash)]
        ELSE [done |-> FALSE, storage |-> locked.storage,
              result |-> NoRet("await")]

\* variant: a call rejected by the lockout is recorded as one more failure
authenticateBegin_counts(st, t, password, storedPasswordHash) ==
    LET locked == isLockedOut(st, t)
    IN  IF locked.ret
        THEN LET recorded == recordFailedAttempt(locked.storage, t)
                 remaining == getLockoutRemaining(recorded.storage, t)
             IN  [done |-> TRUE, storage |-> recorded.storage,
                  result |-> Ret("authenticate", FALSE, 0,
                                 LockedMessage(remaining), Item(remaining),
                                 password, storedPasswordHash)]
        ELSE [done |-> FALSE, storage |-> locked.storage,
              result |-> NoRet("await")]

\* variant: the lockout is not looked at
authenticateBegin_unlocked(st, t, password, storedPasswordHash) ==
    [done |-> FALSE, storage |-> st, result |-> NoRet("await")]

\* authenticate up to its await: the lockout check, and the comparison that
\* verifyPassword starts.  `done` says whether the call has returned.
authenticateBegin(st, t, password, storedPasswordHash) ==
    LET locked == isLockedOut(st, t)
    IN  IF locked.ret
        THEN LET remaining == getLockoutRemaining(locked.storage, t)
             IN  [done |-> TRUE, storage |-> locked.storage,
                  result |-> Ret("authenticate", FALSE, 0,
                                 LockedMessage(remaining), Item(remaining),
                                 password, storedPasswordHash)]
        ELSE [done |-> FALSE, storage |-> locked.storage,
              result |-> NoRet("await")]

\* variant: a successful login leaves the attempt counter as it is
authenticateResume_keepAttempts(st, t, password, storedPasswordHash, token) ==
    IF verifyPassword(password, storedPasswordHash)
    THEN [storage |-> [st EXCEPT
                          !.adminAuth = Item(token),
                          !.adminAuthTime = Item(toString(t))],
          result |-> Ret("authenticate", TRUE, 0, "", NoItem,
                         password, storedPasswordHash)]
    ELSE LET recorded == recordFailedAttempt(st, t)
             attempts == recorded.ret
             remainingAttempts == MAX_LOGIN_ATTEMPTS - attempts.count
         IN  IF Truthy(attempts.lockoutUntil)
             THEN LET remaining == getLockoutRemaining(recorded.storage, t)
                  IN  [storage |-> recorded.storage,
                       result |-> Ret("authenticate", FALSE, 0,
                                      TooManyMessage(remaining),
                                      Item(remaining),
                                      password, storedPasswordHash)]
             ELSE [storage |-> recorded.storage,
                   result |-> Ret("authenticate", FALSE, 0,
                                  IncorrectMessage(remainingAttempts), NoItem,
                                  password, storedPasswordHash)]

\* variant: a failed call ends the session
authenticateResume_endsSession(st, t, password, storedPasswordHash, token) ==
    IF verifyPassword(password, storedPasswordHash)
    THEN [storage |-> [clearLoginAttempts(st) EXCEPT
                          !.adminAuth = Item(token),
                          !.adminAuthTime = Item(toString(t))],
          result |-> Ret("authenticate", TRUE, 0, "", NoItem,
                         password, storedPasswordHash)]
    ELSE LET recorded == recordFailedAttempt(clearSession(st), t)
             attempts == recorded.ret
             remainingAttempts == MAX_LOGIN_ATTEMPTS - attempts.count
         IN  IF Truthy(attempts.lockoutUntil)
             THEN LET remaining == getLockoutRemaining(recorded.storage, t)
                  IN  [storage |-> recorded.storage,
                       result |-> Ret("authenticate", FALSE, 0,
                                      TooManyMessage(remaining),
                                      Item(remaining),
                                      password, storedPasswordHash)]
             ELSE [storage |-> recorded.storage,
                   result |-> Ret("authenticate", FALSE, 0,
                                  IncorrectMessage(remainingAttempts), NoItem,
                                  password, storedPasswordHash)]

\* authenticate after its await, with the token the generator produced
authenticateResume(st, t, password, storedPasswordHash, token) ==
    IF verifyPassword(password, storedPasswordHash)
    THEN [storage |-> [clearLoginAttempts(st) EXCEPT
                          !.adminAuth = Item(token),
                          !.adminAuthTime = Item(toString(t))],
          result |-> Ret("authenticate", TRUE, 0, "", NoItem,
                         password, storedPasswordHash)]
    ELSE LET recorded == recordFailedAttempt(st, t)
             attempts == recorded.ret
             remainingAttempts == MAX_LOGIN_ATTEMPTS - attempts.count
         IN  IF Truthy(attempts.lockoutUntil)
             THEN LET remaining == getLockoutRemaining(recorded.storage, t)
                  IN  [storage |-> recorded.storage,
                       result |-> Ret("authenticate", FALSE, 0,
                                      TooManyMessage(remaining),
                                      Item(remaining),
                                      password, storedPasswordHash)]
             ELSE [storage |-> recorded.storage,
                   result |-> Ret("authenticate", FALSE, 0,
                                  IncorrectMessage(remainingAttempts), NoItem,
                                  password, storedPasswordHash)]

\* ------------------------------------------------------------------------
\* Passwords of the pages, character by character
\* ------------------------------------------------------------------------
\* twelve characters, both cases, a digit and a special character
StrongPassword == "Str0ng-Pass1"
\* 64 hexadecimal characters, both cases and digits
HexPassword ==
    "AbCdEf0123456789AbCdEf0123456789AbCdEf0123456789AbCdEf0123456789"
\* four lower-case letters
WeakPassword == "weak"

\* what a user types into the password field of the Settings page ("" leaves
\* the field blank) and into the login form of the Admin page
SettingsPasswords == {"", StrongPassword, HexPassword, WeakPassword}
LoginPasswords == {StrongPassword, HexPassword}

HexBlock ==
    <<"A", "b", "C", "d", "E", "f",
      "0", "1", "2", "3", "4", "5", "6", "7", "8", "9">>

\* the characters of the typed passwords
Spelling(s) ==
    CASE s = StrongPassword ->
           <<"S", "t", "r", "0", "n", "g", "-", "P", "a", "s", "s", "1">>
      [] s = HexPassword -> HexBlock \o HexBlock \o HexBlock \o HexBlock
      [] s = WeakPassword -> <<"w", "e", "a", "k">>
      [] OTHER -> <<>>

LowerChars ==
    {"a", "b", "c", "d", "e", "f", "g", "h", "i", "j", "k", "l", "m", "n",
     "o", "p", "q", "r", "s", "t", "u", "v", "w", "x", "y", "z"}
UpperChars ==
    {"A", "B", "C", "D", "E", "F", "G", "H", "I", "J", "K", "L", "M", "N",
     "O", "P", "Q", "R", "S", "T", "U", "V", "W", "X", "Y", "Z"}
HexChars ==
    {"a", "b", "c", "d", "e", "f", "A", "B", "C", "D", "E", "F"}
        \cup {DigitChars[d] : d \in 1..10}

\* the strings hashPassword returns: 64 lower-case hexadecimal characters
IsDigest(s) ==
    \E p \in Passwords \cup SettingsPasswords :
        s = hashPassword(p) \/ s = hashPassword(hashPassword(p))

\* String.prototype.length
StrLen(s) == IF IsDigest(s) THEN 64 ELSE Len(Spelling(s))

\* /^[a-f0-9]{64}$/i.test(s)
IsHex64(s) ==
    \/ IsDigest(s)
    \/ /\ Len(Spelling(s)) = 64
       /\ \A i \in 1..64 : Spelling(s)[i] \in HexChars

\* passwordValidation.ts
validatePasswordStrength(password) ==
    LET chars == Spelling(password)
        Has(set) == \E i \in 1..Len(chars) : chars[i] \in set
        Special == \E i \in 1..Len(chars) :
                      /\ chars[i] \notin LowerChars
                      /\ chars[i] \notin UpperChars
                      /\ ~IsDigit(chars[i])
        score == (IF Len(chars) >= 8 THEN 1 ELSE 0)
                   + (IF Len(chars) >= 12 THEN 1 ELSE 0)
                   + (IF Has(LowerChars) /\ Has(UpperChars) THEN 1 ELSE 0)
                   + (IF \E i \in 1..Len(chars) : IsDigit(chars[i])
                      THEN 1 ELSE 0)
                   + (IF Special THEN 1 ELSE 0)
    IN  [score |-> score, isValid |-> score >= 3 /\ Len(chars) >= 8]

\* ------------------------------------------------------------------------
\* config.ts, configSchema.ts, encryption.ts: the config store
\* ------------------------------------------------------------------------
DEFAULT_CONFIG ==
    [submitWebhookUrl |->
         "https://ae485a6b2636.ngrok-free.app/webhook/submit-lead",
     readWebhookUrl |->
         "https://ae485a6b2636.ngrok-free.app/webhook/list-leads",
     adminPassword |-> ""]

ConfigKeys == {"submitWebhookUrl", "readWebhookUrl", "adminPassword"}

\* localStorage of a browser that has not run the application before
EmptyLocalStorage == [enc |-> NoItem, legacy |-> NoItem]

\* A stored text is the value it carries and the form it is written in:
\* JSON.stringify writes "json", simpleObfuscate turns that into
\* "obfuscated" (XOR with the key, then base64), and only an obfuscated text
\* decodes back to JSON.
JSONstringify(v) == [kind |-> "json", value |-> v]
encryptForStorage(data) == [kind |-> "obfuscated", value |-> data.value]
\* the decoded text, or NoItem for '' (atob or the decoding threw); an
\* "obfuscatedText" is the obfuscation of a text that is not JSON
decryptFromStorage(encrypted) ==
    IF encrypted.kind = "obfuscated"
    THEN Item([kind |-> "json", value |-> encrypted.value])
    ELSE IF encrypted.kind = "obfuscatedText"
         THEN Item([kind |-> "text", value |-> encrypted.value])
         ELSE NoItem
\* JSON.parse: the value, or NoItem when it throws
JSONparse(text) ==
    IF text # NoItem /\ text[1].kind = "json" THEN Item(text[1].value)
    ELSE NoItem

\* URLs a runtime override or a stored blob can carry
OtherUrl == "https://example.com/webhook/leads"
LocalUrl == "http://localhost:5678/webhook/leads"
HttpUrl == "http://example.com/webhook/leads"
NotUrl == "webhook"

\* new URL(url): protocol and hostname, or NoItem when it throws
ParseUrl(url) ==
    CASE url \in {DEFAULT_CONFIG.submitWebhookUrl,
                  DEFAULT_CONFIG.readWebhookUrl} ->
           Item([protocol |-> "https:",
                 hostname |-> "ae485a6b2636.ngrok-free.app"])
      [] url = OtherUrl ->
           Item([protocol |-> "https:", hostname |-> "example.com"])
      [] url = LocalUrl ->
           Item([protocol |-> "http:", hostname |-> "localhost"])
      [] url = HttpUrl ->
           Item([protocol |-> "http:", hostname |-> "example.com"])
      [] OTHER -> NoItem

\* webhookUrlSchema: a non-empty, well-formed URL that uses https, or http on
\* localhost, and none of javascript:, data:, file:
webhookUrlSchema(url) ==
    LET parsed == ParseUrl(url)
    IN  /\ url # ""
        /\ parsed # NoItem
        /\ \/ parsed[1].protocol = "https:"
           \/ /\ parsed[1].protocol = "http:"
              /\ parsed[1].hostname \in {"localhost", "127.0.0.1"}
        /\ parsed[1].protocol \notin {"javascript:", "data:", "file:"}

\* configSchema.parse: the messages of the issues, none when the value passes
configSchemaIssues(c) ==
    (IF webhookUrlSchema(c.submitWebhookUrl) \/ c.submitWebhookUrl = ""
     THEN <<>> ELSE <<"Invalid input">>)
    \o (IF webhookUrlSchema(c.readWebhookUrl) \/ c.readWebhookUrl = ""
        THEN <<>> ELSE <<"Invalid input">>)
    \o (IF StrLen(c.adminPassword) < 8
        THEN <<"Password must be at least 8 characters">>
        ELSE IF StrLen(c.adminPassword) > 128
             THEN <<"Password is too long">> ELSE <<>>)

\* { ...a, ...b } for a config a and a partial config b
Spread(a, b) == [k \in ConfigKeys |-> IF k \in DOMAIN b THEN b[k] ELSE a[k]]

\* variant: the encrypted entry is returned as parsed, without the schema
getConfig_unvalidated(ls) ==
    LET parsedEnc == IF ls.enc = NoItem THEN NoItem
                     ELSE JSONparse(decryptFromStorage(ls.enc[1]))
    IN  IF parsedEnc # NoItem
        THEN [ret |-> Spread(DEFAULT_CONFIG, parsedEnc[1]), migrate |-> FALSE]
        ELSE [ret |-> DEFAULT_CONFIG, migrate |-> FALSE]

\* getConfig: the encrypted entry when it decodes and passes the schema, else
\* the legacy entry when it parses and passes (migrate: a saveConfig of it is
\* started), else the defaults
getConfig(ls) ==
    LET parsedEnc == IF ls.enc = NoItem THEN NoItem
                     ELSE JSONparse(decryptFromStorage(ls.enc[1]))
        parsedLegacy == JSONparse(ls.legacy)
    IN  IF parsedEnc # NoItem
             /\ configSchemaIssues(Spread(DEFAULT_CONFIG, parsedEnc[1])) = <<>>
        THEN [ret |-> Spread(DEFAULT_CONFIG, parsedEnc[1]), migrate |-> FALSE]
        ELSE IF parsedLegacy # NoItem
                  /\ configSchemaIssues(
                         Spread(DEFAULT_CONFIG, parsedLegacy[1])) = <<>>
             THEN [ret |-> Spread(DEFAULT_CONFIG, parsedLegacy[1]),
                   migrate |-> TRUE]
             ELSE [ret |-> DEFAULT_CONFIG, migrate |-> FALSE]

\* where the call stack runs out when getConfig and saveConfig call each
\* other over a legacy entry: inside getConfig, whose catch then returns the
\* defaults to the saveConfig that called it, or inside saveConfig, whose
\* promise is then rejected and ignored
Overflows == {"getConfig", "saveConfig"}

\* getConfig with what it does to the store.  Over a valid legacy entry and
\* no valid encrypted one, getConfig calls saveConfig(config), which calls
\* getConfig, and so on until the stack runs out.  On the way back every
\* saveConfig whose getConfig returned normally finds the password equal to
\* the current one, hashes nothing and stores the legacy config as it is; a
\* saveConfig that was given the defaults sends the password to hashPassword
\* and goes on later (pending).
readConfig(ls, overflow) ==
    LET g == getConfig(ls)
    IN  IF ~g.migrate
        THEN [ret |-> g.ret, storage |-> ls, pending |-> <<>>]
        ELSE [ret |-> g.ret,
              storage |-> [enc |-> Item(encryptForStorage(
                                            JSONstringify(g.ret))),
                           legacy |-> NoItem],
              pending |-> IF overflow = "getConfig"
                             /\ ~IsHex64(g.ret.adminPassword)
                          THEN <<[merged |-> g.ret, config |-> g.ret]>>
                          ELSE <<>>]

RECURSIVE Join(_)
\* Array.prototype.join(', ')
Join(messages) ==
    IF Len(messages) = 0 THEN ""
    ELSE IF Len(messages) = 1 THEN messages[1]
         ELSE messages[1] \o ", " \o Join(Tail(messages))

\* variant: every non-empty password is sent to hashPassword
saveConfigBegin_rehash(ls, config) ==
    LET current == getConfig(ls).ret
        merged == Spread(current, config)
    IN  [merged |-> merged, await |-> merged.adminPassword # ""]

\* saveConfig up to its await: the merge with the current config, and
\* whether the password is sent to hashPassword
saveConfigBegin(ls, config) ==
    LET current == getConfig(ls).ret
        merged == Spread(current, config)
    IN  [merged |-> merged,
         await |-> /\ merged.adminPassword # ""
                   /\ merged.adminPassword # current.adminPassword
                   /\ ~IsHex64(merged.adminPassword)]

\* the digest takes the place of the password
saveConfigHashed(merged) ==
    [merged EXCEPT !.adminPassword = hashPassword(merged.adminPassword)]

\* variant: the entry is written before the schema check
saveConfigEnd_writes(ls, merged) ==
    LET issues == configSchemaIssues(merged)
    IN  [storage |-> [enc |-> Item(encryptForStorage(JSONstringify(merged))),
                      legacy |-> NoItem],
         error |-> IF issues = <<>> THEN ""
                   ELSE "Validation failed: " \o Join(issues)]

\* saveConfig from the schema check to its end: the entries afterwards, and
\* the message of the error it throws ("" when it returns)
saveConfigEnd(ls, merged) ==
    LET issues == configSchemaIssues(merged)
    IN  IF issues = <<>>
        THEN [storage |-> [enc |-> Item(encryptForStorage(
                                            JSONstringify(merged))),
                           legacy |-> NoItem],
              error |-> ""]
        ELSE [storage |-> ls,
              error |-> "Validation failed: " \o Join(issues)]

\* ------------------------------------------------------------------------
\* Admin.tsx and Settings.tsx: component state and what a render does
\* ------------------------------------------------------------------------
NotConfiguredMessage ==
    "Admin password not configured. Please set it in Settings."
RequirementsMessage == "Password does not meet requirements"

\* useState initial values of Admin; disabled is the `disabled` attribute the
\* last render gave the password input and the submit button, polling says
\* whether the lockout interval is set, call is the authenticate call this
\* component is waiting for (0: none)
NoAdmin ==
    [isAuthenticated |-> FALSE, isLoggingIn |-> FALSE, authError |-> "",
     lockoutRemaining |-> 0, disabled |-> FALSE, polling |-> FALSE,
     call |-> 0]

\* useState initial values of Settings (the "saved" mark, shown for two
\* seconds after a save, is left out: nothing reads it)
NoSettings == [isSaving |-> FALSE, errors |-> ""]

\* a render of Admin: the login form evaluates isLockedOut() for its
\* controls, the leads view has no such controls
renderAdmin(a, st, t) ==
    IF a.isAuthenticated
    THEN [admin |-> [a EXCEPT !.disabled = FALSE], storage |-> st]
    ELSE LET locked == isLockedOut(st, t)
         IN  [admin |-> [a EXCEPT !.disabled = locked.ret \/ a.isLoggingIn],
              storage |-> locked.storage]

\* the effect that depends on authError: the interval of the previous run is
\* cleared, and a new one is set when the gate is locked
lockoutEffect(a, st, t) ==
    LET locked == isLockedOut(st, t)
    IN  IF locked.ret
        THEN [admin |-> [a EXCEPT
                            !.lockoutRemaining =
                                getLockoutRemaining(locked.storage, t),
                            !.polling = TRUE],
              storage |-> locked.storage]
        ELSE [admin |-> [a EXCEPT !.polling = FALSE],
              storage |-> locked.storage]

\* React commits new state: a render, then the lockout effect when authError
\* differs from the last commit (or on mount), then the render its setState
\* asks for
commitAdmin(a, st, t, runEffect) ==
    LET first == renderAdmin(a, st, t)
    IN  IF ~runEffect THEN first
        ELSE LET e == lockoutEffect(first.admin, first.storage, t)
             IN  renderAdmin(e.admin, e.storage, t)

\* Admin is mounted: first render, the session effect, the lockout effect
mountAdmin(st, t) ==
    LET first == renderAdmin(NoAdmin, st, t)
        valid == isSessionValid(first.storage, t)
    IN  commitAdmin([first.admin EXCEPT !.isAuthenticated = valid.ret],
                    valid.storage, t, TRUE)

\* variant: an empty stored password is handed to authenticate
notConfigured_never(config) == FALSE

\* handleLogin: `if (!config.adminPassword)`
notConfigured(config) == config.adminPassword = ""

\* variant: the form is not marked as logging in
loginStarted_unmarked(a, c) == [a EXCEPT !.authError = "", !.call = c]

\* handleLogin before the call: setIsLoggingIn(true); setAuthError('')
loginStarted(a, c) ==
    [a EXCEPT !.isLoggingIn = TRUE, !.authError = "", !.call = c]

\* handleLogin after the call, with the result it returned
loginFinished(a, result) ==
    IF result.success
    THEN [a EXCEPT !.isAuthenticated = TRUE, !.authError = "",
                   !.isLoggingIn = FALSE, !.call = 0]
    ELSE [a EXCEPT !.authError = IF result.error = ""
                                 THEN "Authentication failed"
                                 ELSE result.error,
                   !.lockoutRemaining = IF Truthy(result.lockoutRemaining)
                                        THEN result.lockoutRemaining[1]
                                        ELSE @,
                   !.isLoggingIn = FALSE, !.call = 0]

\* validateField('adminPassword', value) of Settings
validateField(value) ==
    value = "" \/ validatePasswordStrength(value).isValid

\* ------------------------------------------------------------------------
\* Initial state: a freshly opened tab
\* ------------------------------------------------------------------------
Init ==
    /\ now = 0
    /\ ticks = 0
    /\ sessionStorage = EmptyStorage
    /\ calls = [c \in Callers |-> IdleCall]
    /\ ret = NoRet("load")
    /\ issuedAt = NoItem
    /\ failStreak = [n |-> 0, at |-> 0]
    /\ localStorage = EmptyLocalStorage
    /\ page = "none"
    /\ admin = NoAdmin
    /\ settings = NoSettings
    /\ pendingSave = NoItem
    /\ lastPassword = NoItem

\* ------------------------------------------------------------------------
\* Actions
\* ------------------------------------------------------------------------
NoCallInFlight == \A c \in Callers : calls[c].pc = "idle"

\* history of the failed calls, kept from what callers observe: a failed call
\* is one more in the streak; the streak stands at one past the maximum for
\* calls made within LOCKOUT_DURATION of the call that made it the maximum,
\* and starts again with the first failure after that
FailedOnceMore(t) ==
    IF failStreak.n >= MAX_LOGIN_ATTEMPTS
    THEN IF t >= failStreak.at + LOCKOUT_DURATION
         THEN [n |-> 1, at |-> 0]
         ELSE [n |-> MAX_LOGIN_ATTEMPTS + 1, at |-> failStreak.at]
    ELSE [n |-> failStreak.n + 1,
          at |-> IF failStreak.n + 1 = MAX_LOGIN_ATTEMPTS THEN t ELSE 0]

\* a caller invokes authenticate(password, storedPasswordHash); the call runs
\* to its await, or returns at once when the gate is locked
AuthenticateBegin(c, password, storedPasswordHash, overlap) ==
    /\ calls[c].pc = "idle"
    /\ \A d \in Callers : d < c => calls[d].pc # "idle"
    /\ overlap \/ NoCallInFlight
    /\ LET b == authenticateBegin(sessionStorage, now, password,
                                  storedPasswordHash)
       IN  /\ sessionStorage' = b.storage
           /\ ret' = b.result
           /\ IF b.done
              THEN /\ calls' = calls
                   /\ failStreak' = FailedOnceMore(now)
              ELSE /\ calls' = [calls EXCEPT ![c] =
                          [pc |-> "awaiting", password |-> password,
                           storedPasswordHash |-> storedPasswordHash]]
                   /\ failStreak' = failStreak
    /\ UNCHANGED <<now, ticks, issuedAt, appVars>>

\* the digest is ready and the call runs to its end
AuthenticateResume(c) ==
    /\ calls[c].pc = "awaiting"
    /\ \E token \in Tokens :
         LET r == authenticateResume(sessionStorage, now, calls[c].password,
                                     calls[c].storedPasswordHash, token)
         IN  /\ sessionStorage' = r.storage
             /\ ret' = r.result
             /\ issuedAt' = IF r.result.success THEN Item(now) ELSE issuedAt
             /\ failStreak' = IF r.result.success THEN [n |-> 0, at |-> 0]
                              ELSE FailedOnceMore(now)
    /\ calls' = [calls EXCEPT ![c] = IdleCall]
    /\ UNCHANGED <<now, ticks, appVars>>

IsSessionValid ==
    /\ LET r == isSessionValid(sessionStorage, now)
       IN  /\ sessionStorage' = r.storage
           /\ ret' = Ret("isSessionValid", r.ret, 0, "", NoItem, "", "")
    /\ UNCHANGED <<now, ticks, calls, issuedAt, failStreak, appVars>>

ClearSession ==
    /\ sessionStorage' = clearSession(sessionStorage)
    /\ ret' = NoRet("clearSession")
    /\ issuedAt' = NoItem
    /\ UNCHANGED <<now, ticks, calls, failStreak, appVars>>

IsLockedOut ==
    /\ LET r == isLockedOut(sessionStorage, now)
       IN  /\ sessionStorage' = r.storage
           /\ ret' = Ret("isLockedOut", r.ret, 0, "", NoItem, "", "")
    /\ UNCHANGED <<now, ticks, calls, issuedAt, failStreak, appVars>>

GetLockoutRemaining ==
    /\ LET r == readLockoutRemaining(sessionStorage, now)
       IN  /\ sessionStorage' = r.storage
           /\ ret' = Ret("getLockoutRemaining", FALSE, r.ret, "", NoItem,
                         "", "")
    /\ UNCHANGED <<now, ticks, calls, issuedAt, failStreak, appVars>>

\* time passes
Tick ==
    /\ ticks < MaxTicks
    /\ \E d \in Steps : now' = now + d
    /\ ticks' = ticks + 1
    /\ ret' = NoRet("tick")
    /\ UNCHANGED <<sessionStorage, calls, issuedAt, failStreak, appVars>>

\* the gate used as section 5 of the specification requires: no authenticate
\* call starts while another is in flight
Next ==
    \/ \E c \in Callers, password \in Passwords, hash \in StoredHashes :
          AuthenticateBegin(c, password, hash, FALSE)
    \/ \E c \in Callers : AuthenticateResume(c)
    \/ IsSessionValid
    \/ ClearSession
    \/ IsLockedOut
    \/ GetLockoutRemaining
    \/ Tick

Spec == Init /\ [][Next]_vars

TypeOK ==
    /\ now \in Nat
    /\ ticks \in 0..MaxTicks
    /\ \A c \in Callers : calls[c].pc \in {"idle", "awaiting"}

\* ------------------------------------------------------------------------
\* The pages: actions of the application
\* ------------------------------------------------------------------------
Pages == {"index", "admin", "settings"}

\* the authenticate call a handleLogin occupies: the first that is idle
FreeCall(c) ==
    /\ calls[c].pc = "idle"
    /\ \A d \in Callers : d < c => calls[d].pc # "idle"

\* the user follows a link: the mounted page is unmounted (its interval is
\* cleared, its state is dropped) and the target is mounted.  A call that is
\* waiting for its digest goes on without its page; `anytime` says whether
\* the user leaves a page in that moment.
Navigate(target, anytime) ==
    /\ target # page
    /\ anytime \/ (NoCallInFlight /\ pendingSave = NoItem)
    /\ page' = target
    /\ IF target = "admin"
       THEN LET m == mountAdmin(sessionStorage, now)
            IN  /\ admin' = m.admin
                /\ sessionStorage' = m.storage
       ELSE /\ admin' = NoAdmin
            /\ sessionStorage' = sessionStorage
    /\ settings' = NoSettings
    /\ ret' = NoRet("navigate")
    /\ UNCHANGED <<now, ticks, calls, issuedAt, failStreak,
                   localStorage, pendingSave, lastPassword>>

\* the login form is submitted with `password` in its field
HandleLogin(c, password) ==
    /\ page = "admin"
    /\ ~admin.isAuthenticated
    /\ ~admin.disabled
    /\ FreeCall(c)
    /\ LET config == getConfig(localStorage).ret
       IN  IF notConfigured(config)
           THEN LET a == [admin EXCEPT !.authError = NotConfiguredMessage]
                    m == commitAdmin(a, sessionStorage, now,
                                     a.authError # admin.authError)
                IN  /\ admin' = m.admin
                    /\ sessionStorage' = m.storage
                    /\ ret' = NoRet("handleLogin")
                    /\ UNCHANGED <<calls, failStreak>>
           ELSE LET b == authenticateBegin(sessionStorage, now, password,
                                           config.adminPassword)
                    started == loginStarted(admin, c)
                    \* the state set before the await is committed first,
                    \* the result of a call that ended at once after it
                    first == commitAdmin(started, b.storage, now,
                                         started.authError # admin.authError)
                    a == loginFinished(first.admin, b.result)
                    m == IF b.done
                         THEN commitAdmin(a, first.storage, now,
                                          a.authError # first.admin.authError)
                         ELSE first
                IN  /\ admin' = m.admin
                    /\ sessionStorage' = m.storage
                    /\ ret' = b.result
                    /\ IF b.done
                       THEN /\ calls' = calls
                            /\ failStreak' = FailedOnceMore(now)
                       ELSE /\ calls' = [calls EXCEPT ![c] =
                                   [pc |-> "awaiting", password |-> password,
                                    storedPasswordHash |->
                                        config.adminPassword]]
                            /\ failStreak' = failStreak
    /\ UNCHANGED <<now, ticks, issuedAt, localStorage, page, settings,
                   pendingSave, lastPassword>>

\* the digest is ready: authenticate runs to its end and handleLogin takes
\* the result; a component that is no longer mounted ignores it
HandleLoginResume(c) ==
    /\ calls[c].pc = "awaiting"
    /\ \E token \in Tokens :
         LET r == authenticateResume(sessionStorage, now, calls[c].password,
                                     calls[c].storedPasswordHash, token)
             mine == page = "admin" /\ admin.call = c
             a == loginFinished(admin, r.result)
             m == IF mine
                  THEN commitAdmin(a, r.storage, now,
                                   a.authError # admin.authError)
                  ELSE [admin |-> admin, storage |-> r.storage]
         IN  /\ admin' = m.admin
             /\ sessionStorage' = m.storage
             /\ ret' = r.result
             /\ issuedAt' = IF r.result.success THEN Item(now) ELSE issuedAt
             /\ failStreak' = IF r.result.success THEN [n |-> 0, at |-> 0]
                              ELSE FailedOnceMore(now)
    /\ calls' = [calls EXCEPT ![c] = IdleCall]
    /\ UNCHANGED <<now, ticks, localStorage, page, settings, pendingSave,
                   lastPassword>>

\* a character is typed into the password field: setPassword, and a render
TypePassword ==
    /\ page = "admin"
    /\ ~admin.isAuthenticated
    /\ ~admin.disabled
    /\ LET m == renderAdmin(admin, sessionStorage, now)
       IN  /\ admin' = m.admin
           /\ sessionStorage' = m.storage
    /\ ret' = NoRet("setPassword")
    /\ UNCHANGED <<now, ticks, calls, issuedAt, failStreak, localStorage,
                   page, settings, pendingSave, lastPassword>>

\* the lockout interval fires
LockoutPoll ==
    /\ page = "admin"
    /\ admin.polling
    /\ LET r == readLockoutRemaining(sessionStorage, now)
           a == [admin EXCEPT !.lockoutRemaining = r.ret,
                              !.polling = r.ret # 0]
           m == IF r.ret # admin.lockoutRemaining
                THEN renderAdmin(a, r.storage, now)
                ELSE [admin |-> a, storage |-> r.storage]
       IN  /\ admin' = m.admin
           /\ sessionStorage' = m.storage
           /\ ret' = Ret("getLockoutRemaining", FALSE, r.ret, "", NoItem,
                         "", "")
    /\ UNCHANGED <<now, ticks, calls, issuedAt, failStreak, localStorage,
                   page, settings, pendingSave, lastPassword>>

\* the Refresh button of the leads view: fetchLeads reads the config and
\* sends the request for the leads (value 1) unless no URL is configured
FetchLeads ==
    /\ page = "admin"
    /\ admin.isAuthenticated
    /\ ret' = Ret("fetchLeads", FALSE,
                  IF getConfig(localStorage).ret.readWebhookUrl = ""
                  THEN 0 ELSE 1,
                  "", NoItem, "", "")
    /\ UNCHANGED <<now, ticks, sessionStorage, calls, issuedAt, failStreak,
                   appVars>>

\* handleSave of Settings once saveConfig has settled with `error` ("" when
\* it returned)
saveSettled(s, error) ==
    [s EXCEPT !.isSaving = FALSE, !.errors = error]

\* the Save button is pressed with `typed` in the password field.  The URLs
\* of the form are the stored ones: the page has no control that edits them.
HandleSave(typed) ==
    /\ page = "settings"
    /\ ~settings.isSaving
    /\ pendingSave = NoItem
    /\ LET currentConfig == getConfig(localStorage).ret
           isPasswordHashed == IsHex64(currentConfig.adminPassword)
           passwordValid == IF typed = "" /\ isPasswordHashed THEN TRUE
                            ELSE validateField(typed)
           configToSave ==
               [currentConfig EXCEPT
                   !.adminPassword = IF typed = "" /\ isPasswordHashed
                                     THEN currentConfig.adminPassword
                                     ELSE typed]
           b == saveConfigBegin(localStorage, configToSave)
           e == saveConfigEnd(localStorage, b.merged)
       IN  IF ~passwordValid
           THEN /\ settings' = [settings EXCEPT !.errors = RequirementsMessage]
                /\ ret' = NoRet("handleSave")
                /\ UNCHANGED <<localStorage, pendingSave, lastPassword>>
           ELSE IF b.await
           THEN /\ settings' = [settings EXCEPT !.isSaving = TRUE]
                /\ pendingSave' = Item([merged |-> b.merged, typed |-> typed])
                /\ ret' = NoRet("await")
                /\ UNCHANGED <<localStorage, lastPassword>>
           ELSE /\ settings' = saveSettled(settings, e.error)
                /\ localStorage' = e.storage
                /\ lastPassword' = IF e.error = "" /\ typed # ""
                                   THEN Item(typed) ELSE lastPassword
                /\ ret' = Ret("saveConfig", e.error = "", 0, e.error, NoItem,
                              typed, "")
                /\ UNCHANGED pendingSave
    /\ UNCHANGED <<now, ticks, sessionStorage, calls, issuedAt, failStreak,
                   page, admin>>

\* the digest is ready: saveConfig runs to its end and handleSave takes the
\* outcome; a component that is no longer mounted ignores it
HandleSaveResume ==
    /\ pendingSave # NoItem
    /\ LET typed == pendingSave[1].typed
           e == saveConfigEnd(localStorage,
                              saveConfigHashed(pendingSave[1].merged))
       IN  /\ localStorage' = e.storage
           /\ settings' = IF page = "settings" /\ settings.isSaving
                          THEN saveSettled(settings, e.error)
                          ELSE settings
           /\ lastPassword' = IF e.error = "" THEN Item(typed)
                              ELSE lastPassword
           /\ ret' = Ret("saveConfig", e.error = "", 0, e.error, NoItem,
                         typed, "")
    /\ pendingSave' = NoItem
    /\ UNCHANGED <<now, ticks, sessionStorage, calls, issuedAt, failStreak,
                   page, admin>>

\* what the submit webhook can answer: 2xx after the workflow took the lead,
\* 2xx with { success: false, errors } after it refused it, another status,
\* no answer
Replies == {"accepted", "refused", "httpError", "networkError"}

\* variant: the form asks the gate and posts only with a valid session
onSubmit_gated(st, t, config, reply) ==
    LET valid == isSessionValid(st, t)
    IN  IF ~valid.ret
        THEN [sent |-> FALSE, ok |-> FALSE, storage |-> valid.storage,
              error |-> "Not authenticated"]
        ELSE [sent |-> TRUE, ok |-> reply \in {"accepted", "refused"},
              storage |-> valid.storage, error |-> ""]

\* onSubmit of LeadForm with data that passed leadSchema: whether the lead
\* was posted, whether the view goes on to /submitted, the error shown, and
\* sessionStorage afterwards
onSubmit(st, t, config, reply) ==
    IF config.submitWebhookUrl = ""
    THEN [sent |-> FALSE, ok |-> FALSE, storage |-> st,
          error |->
            "Webhook URL not configured. Please configure it in Settings."]
    ELSE IF reply = "httpError"
    THEN [sent |-> TRUE, ok |-> FALSE, storage |-> st,
          error |-> "Failed to submit lead: Webhook returned 500"]
    ELSE IF reply = "networkError"
    THEN [sent |-> TRUE, ok |-> FALSE, storage |-> st,
          error |-> "Failed to submit lead: Failed to fetch"]
    ELSE [sent |-> TRUE, ok |-> TRUE, storage |-> st, error |-> ""]

\* the lead form of the Index page is filled in and submitted; data that
\* fails leadSchema is stopped by the resolver before onSubmit
SubmitLead(dataValid, reply) ==
    /\ page = "index"
    /\ IF ~dataValid
       THEN /\ ret' = NoRet("leadSchema")
            /\ UNCHANGED <<sessionStorage, page>>
       ELSE LET r == onSubmit(sessionStorage, now,
                              getConfig(localStorage).ret, reply)
            IN  /\ sessionStorage' = r.storage
                /\ page' = IF r.ok THEN "submitted" ELSE page
                /\ ret' = Ret("submitLead", r.ok, IF r.sent THEN 1 ELSE 0,
                              r.error, NoItem, "", "")
    /\ UNCHANGED <<now, ticks, calls, issuedAt, failStreak, localStorage,
                   admin, settings, pendingSave, lastPassword>>

\* time passes while the application is open
Elapse ==
    /\ ticks < MaxTicks
    /\ \E d \in AppSteps : now' = now + d
    /\ ticks' = ticks + 1
    /\ ret' = NoRet("tick")
    /\ UNCHANGED <<sessionStorage, calls, issuedAt, failStreak, appVars>>

\* the application is opened on the lead form in a browser that has not run
\* it before
InitApp ==
    /\ now = 0
    /\ ticks = 0
    /\ sessionStorage = EmptyStorage
    /\ calls = [c \in Callers |-> IdleCall]
    /\ ret = NoRet("load")
    /\ issuedAt = NoItem
    /\ failStreak = [n |-> 0, at |-> 0]
    /\ localStorage = EmptyLocalStorage
    /\ page = "index"
    /\ admin = NoAdmin
    /\ settings = NoSettings
    /\ pendingSave = NoItem
    /\ lastPassword = NoItem

NextApp ==
    \/ \E target \in Pages : Navigate(target, FALSE)
    \/ \E c \in Callers, password \in LoginPasswords : HandleLogin(c, password)
    \/ \E c \in Callers : HandleLoginResume(c)
    \/ LockoutPoll
    \/ FetchLeads
    \/ \E typed \in SettingsPasswords : HandleSave(typed)
    \/ HandleSaveResume
    \/ \E dataValid \in BOOLEAN, reply \in Replies :
          SubmitLead(dataValid, reply)
    \/ Elapse

\* the pages used by someone who waits for a pending request before following
\* a link
SpecApp == InitApp /\ [][NextApp]_vars

\* ------------------------------------------------------------------------
\* Properties
\* ------------------------------------------------------------------------
\* the stored attempt counter, before and after a step
Attempts == getLoginAttempts(sessionStorage)
AttemptsAfter == getLoginAttempts(sessionStorage')

\* a lockout is stored and has not run out
LockoutActive ==
    Attempts.lockoutUntil # NoItem /\ now < Attempts.lockoutUntil[1]

\* by what callers have seen, the fifth failure in a row is less than
\* LOCKOUT_DURATION ago
LockedByHistory ==
    failStreak.n >= MAX_LOGIN_ATTEMPTS
        /\ now < failStreak.at + LOCKOUT_DURATION

\* the step in which an authenticate call returns to its caller
AuthenticateReturns == ret'.op = "authenticate"

\* the arguments of the call that returned are a password and its digest
CorrectPassword(r) == r.storedPasswordHash = hashPassword(r.password)
\* ... are a password and the digest of a different password
WrongPassword(r) ==
    \E p \in Passwords :
        p # r.password /\ r.storedPasswordHash = hashPassword(p)

SessionEntriesUnchanged ==
    /\ sessionStorage'.adminAuth = sessionStorage.adminAuth
    /\ sessionStorage'.adminAuthTime = sessionStorage.adminAuthTime

\* C1: after five failed authenticate calls in a row, and until the lockout
\* runs out, isLockedOut() is true, and an authenticate call made then fails
\* whatever the password, leaving the attempt counter and the session
\* entries as they were.
C1_LockedAfterFiveFailures ==
    /\ [](failStreak.n = MAX_LOGIN_ATTEMPTS /\ LockedByHistory
            => isLockedOut(sessionStorage, now).ret)
    /\ [][AuthenticateReturns /\ LockedByHistory
            => /\ ~ret'.success
               /\ sessionStorage'.loginAttempts = sessionStorage.loginAttempts
               /\ SessionEntriesUnchanged]_vars

\* the sixth call, with the correct password, has been rejected
C1_Witness ==
    /\ ret.op = "authenticate"
    /\ failStreak.n = MAX_LOGIN_ATTEMPTS + 1
    /\ LockedByHistory
    /\ ret.password = "correct" /\ CorrectPassword(ret)
    /\ ~ret.success
    /\ Attempts.count = MAX_LOGIN_ATTEMPTS

\* C2 as stated: for every password P, the empty one included, a call
\* authenticate(P, digest(P)) that is not rejected by a lockout succeeds and
\* isSessionValid() is true right after it.
C2_AnyPasswordSucceeds ==
    [][AuthenticateReturns /\ ~LockoutActive /\ CorrectPassword(ret')
          => ret'.success /\ isSessionValid(sessionStorage', now').ret]_vars

\* C2 amended: the same for every non-empty password P.
C2_NonEmptyPasswordSucceeds ==
    [][AuthenticateReturns /\ ~LockoutActive /\ CorrectPassword(ret')
         /\ ret'.password # ""
          => ret'.success /\ isSessionValid(sessionStorage', now').ret]_vars

C2_Witness ==
    /\ ret.op = "authenticate"
    /\ ret.password = "correct" /\ CorrectPassword(ret)
    /\ ret.success
    /\ sessionStorage.adminAuthTime = Item(toString(now))
    /\ isSessionValid(sessionStorage, now).ret

\* C3: a call authenticate(W, digest(P)) with W different from P, returning
\* in a state without a valid session, reports failure and leaves the state
\* without a valid session.
C3_WrongPasswordFails ==
    [][AuthenticateReturns /\ WrongPassword(ret')
         /\ ~isSessionValid(sessionStorage, now).ret
          => ~ret'.success /\ ~isSessionValid(sessionStorage', now').ret]_vars

C3_Witness ==
    /\ ret.op = "authenticate"
    /\ ret.password = "wrong"
    /\ ret.storedPasswordHash = hashPassword("correct")
    /\ ~ret.success
    /\ ~isSessionValid(sessionStorage, now).ret

\* C4 as stated: isSessionValid() called on a session issued at T returns
\* true when now - T < SESSION_DURATION; when now - T >= SESSION_DURATION,
\* the boundary included, it removes the session entries and returns false.
C4_ValidIffStrictlyYounger ==
    [][ret'.op = "isSessionValid" /\ issuedAt # NoItem
         /\ sessionStorage.adminAuth # NoItem
          => /\ now - issuedAt[1] < SESSION_DURATION => ret'.success
             /\ now - issuedAt[1] >= SESSION_DURATION
                  => /\ ~ret'.success
                     /\ sessionStorage'.adminAuth = NoItem
                     /\ sessionStorage'.adminAuthTime = NoItem]_vars

\* C5: a session issued at T is reported valid up to T + 29 min 59 s and
\* invalid from T + 30 min 1 s on; isSessionValid() never changes the time of
\* issue, the call at an invalid time removes adminAuth and adminAuthTime,
\* and the calls after it return false until a session is issued again.
C5_SessionExpires ==
    [][ret'.op = "isSessionValid" /\ issuedAt # NoItem
          => /\ issuedAt' = issuedAt
             /\ sessionStorage'.adminAuthTime
                    \in {sessionStorage.adminAuthTime, NoItem}
             /\ now - issuedAt[1] <= SESSION_DURATION - 1000
                  => ret'.success
             /\ now - issuedAt[1] >= SESSION_DURATION + 1000
                  => /\ ~ret'.success
                     /\ sessionStorage'.adminAuth = NoItem
                     /\ sessionStorage'.adminAuthTime = NoItem]_vars

\* the call at T + 30 min 1 s has removed the session
C5_Witness ==
    /\ ret.op = "isSessionValid"
    /\ issuedAt # NoItem
    /\ now - issuedAt[1] = SESSION_DURATION + 1000
    /\ ~ret.success
    /\ sessionStorage.adminAuth = NoItem
    /\ sessionStorage.adminAuthTime = NoItem

\* C6: the stored attempt counter has lockoutUntil set if and only if its
\* count is MAX_LOGIN_ATTEMPTS.
C6_LockoutIffMaxCount ==
    (Attempts.lockoutUntil # NoItem) <=> (Attempts.count = MAX_LOGIN_ATTEMPTS)

\* a lockout has run out and isLockedOut() has cleared the counter
C6_Witness ==
    /\ ret.op = "isLockedOut"
    /\ failStreak.n = MAX_LOGIN_ATTEMPTS
    /\ now >= failStreak.at + LOCKOUT_DURATION
    /\ Attempts.count = 0
    /\ Attempts.lockoutUntil = NoItem

\* C7: while a lockout is stored, getLockoutRemaining() is the least number
\* of whole seconds that covers lockoutUntil - now, does not grow as time
\* passes, and is 0 exactly from lockoutUntil on; from then on isLockedOut()
\* is false and an authenticate call with the correct password succeeds.
C7_RemainingCountsDown ==
    /\ [](Attempts.lockoutUntil # NoItem =>
            LET until == Attempts.lockoutUntil[1]
                remaining == getLockoutRemaining(sessionStorage, now)
            IN  /\ remaining >= 0
                /\ now < until
                     => /\ (remaining - 1) * 1000 < until - now
                        /\ until - now <= remaining * 1000
                /\ (remaining = 0) <=> (now >= until)
                /\ now >= until => ~isLockedOut(sessionStorage, now).ret)
    /\ [][/\ (Attempts.lockoutUntil # NoItem
                /\ AttemptsAfter.lockoutUntil = Attempts.lockoutUntil)
              => getLockoutRemaining(sessionStorage', now')
                    <= getLockoutRemaining(sessionStorage, now)
          /\ (/\ AuthenticateReturns
              /\ failStreak.n >= MAX_LOGIN_ATTEMPTS /\ ~LockedByHistory
              /\ CorrectPassword(ret') /\ ret'.password # "")
              => ret'.success]_vars

\* the countdown has been read at the instant the lockout ends
C7_Witness ==
    /\ ret.op = "getLockoutRemaining"
    /\ Attempts.lockoutUntil = Item(now)
    /\ ret.value = 0
    /\ ~isLockedOut(sessionStorage, now).ret

\* C8: the lockout that the fifth failure starts at time T is stored as
\* T + LOCKOUT_DURATION, and no step taken while it is active changes
\* lockoutUntil.
C8_LockoutNotExtended ==
    /\ [](LockedByHistory
            => Attempts.lockoutUntil = Item(failStreak.at + LOCKOUT_DURATION))
    /\ [][LockoutActive
            => AttemptsAfter.lockoutUntil = Attempts.lockoutUntil]_vars

\* a call has been rejected some time into the lockout
C8_Witness ==
    /\ ret.op = "authenticate"
    /\ failStreak.n = MAX_LOGIN_ATTEMPTS + 1
    /\ LockedByHistory
    /\ now > failStreak.at
    /\ Attempts.lockoutUntil = Item(failStreak.at + LOCKOUT_DURATION)

\* the message for n remaining attempts, as the user reads it
ExpectedIncorrectMessage(n) ==
    CASE n = 4 -> "Incorrect password. 4 attempts remaining."
      [] n = 3 -> "Incorrect password. 3 attempts remaining."
      [] n = 2 -> "Incorrect password. 2 attempts remaining."
      [] n = 1 -> "Incorrect password. 1 attempt remaining."
      [] OTHER -> "?"

\* the arguments of the call that returned do not match
Mismatch(r) == r.storedPasswordHash # hashPassword(r.password)

\* C9: an authenticate call with a mismatching password that is not rejected
\* by a lockout raises the stored count by exactly 1; when the new count is
\* below MAX_LOGIN_ATTEMPTS it returns failure, the message names
\* MAX_LOGIN_ATTEMPTS - count remaining attempts, and there is no
\* lockoutRemaining.
C9_MismatchCountsOnce ==
    [][AuthenticateReturns /\ ~LockoutActive /\ Mismatch(ret')
          => /\ AttemptsAfter.count = Attempts.count + 1
             /\ AttemptsAfter.count < MAX_LOGIN_ATTEMPTS
                  => /\ ~ret'.success
                     /\ ret'.error = ExpectedIncorrectMessage(
                            MAX_LOGIN_ATTEMPTS - AttemptsAfter.count)
                     /\ ret'.lockoutRemaining = NoItem]_vars

\* the first wrong attempt
C9_Witness ==
    /\ ret.op = "authenticate"
    /\ Mismatch(ret)
    /\ failStreak.n = 1
    /\ Attempts.count = 1
    /\ ret.error = "Incorrect password. 4 attempts remaining."

\* C10: the mismatching call that brings the count to MAX_LOGIN_ATTEMPTS
\* stores lockoutUntil = now + LOCKOUT_DURATION and returns failure with the
\* lockout message and a lockoutRemaining of 900 seconds.
C10_FifthMismatchLocks ==
    [][AuthenticateReturns /\ ~LockoutActive /\ Mismatch(ret')
         /\ Attempts.count = MAX_LOGIN_ATTEMPTS - 1
          => /\ AttemptsAfter.count = MAX_LOGIN_ATTEMPTS
             /\ AttemptsAfter.lockoutUntil = Item(now + 15 * 60 * 1000)
             /\ ~ret'.success
             /\ ret'.error =
                  "Too many failed attempts. Account locked for 15 minutes."
             /\ ret'.lockoutRemaining = Item(900)]_vars

C10_Witness ==
    /\ ret.op = "authenticate"
    /\ Mismatch(ret)
    /\ failStreak = [n |-> MAX_LOGIN_ATTEMPTS, at |-> now]
    /\ Attempts.count = MAX_LOGIN_ATTEMPTS
    /\ ret.lockoutRemaining = Item(900)

\* C11: a successful authenticate call removes the loginAttempts entry and
\* stores a session (a generated token, and the current time as
\* adminAuthTime) in place of any earlier one; the first failure after a
\* success reports 4 attempts remaining, however many failures came before
\* the success.
C11_SuccessResetsCounter ==
    [][/\ (AuthenticateReturns /\ ret'.success)
            => /\ sessionStorage'.loginAttempts = NoItem
               /\ AttemptsAfter = [count |-> 0, lockoutUntil |-> NoItem]
               /\ \E token \in Tokens :
                     sessionStorage'.adminAuth = Item(token)
               /\ sessionStorage'.adminAuthTime = Item(toString(now))
               /\ parseInt(sessionStorage'.adminAuthTime[1]) = Item(now)
       /\ (AuthenticateReturns /\ ~ret'.success
              /\ issuedAt # NoItem /\ failStreak.n = 0)
            => /\ ret'.error = "Incorrect password. 4 attempts remaining."
               /\ AttemptsAfter.count = 1]_vars

\* the first failure after a login that replaced an earlier session
C11_Witness ==
    /\ ret.op = "authenticate"
    /\ ~ret.success
    /\ issuedAt # NoItem /\ issuedAt[1] > 0
    /\ failStreak.n = 1
    /\ Attempts.count = 1
    /\ ret.error = "Incorrect password. 4 attempts remaining."

\* C12: isLockedOut() returns true iff lockoutUntil is set and now is
\* before it; when lockoutUntil is set and now >= lockoutUntil the call
\* removes the attempt counter and returns false; when no lockoutUntil is
\* set it changes nothing; a failed attempt after the lockout has run out is
\* the first of five new ones.
C12_IsLockedOut ==
    [][/\ ret'.op = "isLockedOut"
            => /\ ret'.success <=>
                    (Attempts.lockoutUntil # NoItem
                        /\ now < Attempts.lockoutUntil[1])
               /\ (Attempts.lockoutUntil # NoItem
                        /\ now >= Attempts.lockoutUntil[1])
                    => sessionStorage'.loginAttempts = NoItem
               /\ Attempts.lockoutUntil = NoItem
                    => sessionStorage' = sessionStorage
               /\ SessionEntriesUnchanged
       /\ (AuthenticateReturns /\ ~ret'.success
              /\ failStreak.n >= MAX_LOGIN_ATTEMPTS /\ ~LockedByHistory)
            => /\ AttemptsAfter = [count |-> 1, lockoutUntil |-> NoItem]
               /\ ret'.error = "Incorrect password. 4 attempts remaining."]_vars

\* isLockedOut() has been called at the very instant the lockout ends
C12_Witness ==
    /\ ret.op = "isLockedOut"
    /\ ~ret.success
    /\ failStreak.n = MAX_LOGIN_ATTEMPTS
    /\ now = failStreak.at + LOCKOUT_DURATION
    /\ sessionStorage.loginAttempts = NoItem

\* C13: after clearSession() the session is invalid, whatever the state
\* before, and the attempt counter is as it was.
C13_ClearSession ==
    [][ret'.op = "clearSession"
          => /\ ~isSessionValid(sessionStorage', now').ret
             /\ sessionStorage'.adminAuth = NoItem
             /\ sessionStorage'.adminAuthTime = NoItem
             /\ sessionStorage'.loginAttempts = sessionStorage.loginAttempts]_vars

\* a logout during a lockout
C13_Witness ==
    /\ ret.op = "clearSession"
    /\ LockoutActive
    /\ Attempts.count = MAX_LOGIN_ATTEMPTS
    /\ ~isSessionValid(sessionStorage, now).ret

\* C18: an authenticate call that fails returns a result with success =
\* false and an error message, and the result carries lockoutRemaining, a
\* positive number, exactly when the call was rejected by a lockout or is
\* the fifth failure in a row, which starts one.
C18_FailureIsAValue ==
    [][(AuthenticateReturns
          /\ (LockoutActive \/ ~verifyPassword(ret'.password,
                                               ret'.storedPasswordHash)))
          => /\ ~ret'.success
             /\ ret'.error # ""
             /\ (ret'.lockoutRemaining # NoItem)
                   <=> (failStreak'.n >= MAX_LOGIN_ATTEMPTS)
             /\ ret'.lockoutRemaining # NoItem
                   => ret'.lockoutRemaining[1] > 0]_vars

\* a call rejected in the last millisecond of the lockout
C18_Witness ==
    /\ ret.op = "authenticate"
    /\ ~ret.success
    /\ failStreak.n = MAX_LOGIN_ATTEMPTS + 1
    /\ now = failStreak.at + LOCKOUT_DURATION - 1
    /\ ret.lockoutRemaining = Item(1)
    /\ ret.error = "Account locked. Try again in 1 minutes."

InitForm ==
    /\ now = 0
    /\ ticks = 0
    /\ sessionStorage = EmptyStorage
    /\ calls = [c \in Callers |-> IdleCall]
    /\ ret = NoRet("load")
    /\ issuedAt = NoItem
    /\ failStreak = [n |-> 0, at |-> 0]
    /\ localStorage =
           saveConfigEnd(EmptyLocalStorage,
                         saveConfigHashed(
                             [DEFAULT_CONFIG EXCEPT
                                 !.adminPassword = StrongPassword])).storage
    /\ page = "index"
    /\ admin = NoAdmin
    /\ settings = NoSettings
    /\ pendingSave = NoItem
    /\ lastPassword = Item(StrongPassword)

NextForm ==
    \/ \E target \in {"index", "admin"} : Navigate(target, TRUE)
    \/ \E c \in Callers, password \in LoginPasswords : HandleLogin(c, password)
    \/ \E c \in Callers : HandleLoginResume(c)
    \/ LockoutPoll
    \/ FetchLeads
    \/ Elapse

\* the Admin page used by someone who follows links at any moment, also while
\* a login is waiting for its digest
SpecForm == InitForm /\ [][NextForm]_vars

\* the stored config, as getConfig reads it
StoredConfig == getConfig(localStorage).ret

\* the session entries are present and the stored issue time is less than
\* SESSION_DURATION ago
StoredSessionFresh ==
    /\ sessionStorage.adminAuth # NoItem
    /\ sessionStorage.adminAuthTime # NoItem
    /\ LET authTime == parseInt(sessionStorage.adminAuthTime[1])
       IN  authTime # NoItem /\ now - authTime[1] < SESSION_DURATION

\* the Admin page shows the leads view
LeadsViewShown == page = "admin" /\ admin.isAuthenticated

\* C14: whenever the Admin page shows the leads view, and whenever fetchLeads
\* has just run, the session entries are stored and the session was issued
\* less than 30 minutes ago.
C14_LeadsOnlyWithSession ==
    (LeadsViewShown \/ ret.op = "fetchLeads") => StoredSessionFresh

\* C15: once a password has been saved, the stored adminPassword is the
\* digest of the password last saved, and is not that password itself.
C15_PlaintextNeverStored ==
    lastPassword # NoItem
        => /\ StoredConfig.adminPassword = hashPassword(lastPassword[1])
           /\ StoredConfig.adminPassword # lastPassword[1]

\* C16: an authenticate call that was made with the stored adminPassword
\* while no lockout was active succeeds when its password is the one last
\* saved through the Settings page, and fails for any other password.
C16_CredentialRoundTrip ==
    [][(/\ AuthenticateReturns
        /\ calls' # calls
        /\ lastPassword # NoItem
        /\ ret'.storedPasswordHash = StoredConfig.adminPassword)
          => (ret'.success <=> ret'.password = lastPassword[1])]_vars

\* C17: with no admin password stored, a submission of the login form sets
\* the 'not configured' message, starts no authenticate call and leaves the
\* attempt counter, the lockout and the session entries as they were.
C17_NotConfigured ==
    [][(/\ page = "admin"
        /\ ~admin.isAuthenticated
        /\ StoredConfig.adminPassword = ""
        /\ ret'.op \in {"handleLogin", "await", "authenticate"})
          => /\ admin'.authError = NotConfiguredMessage
             /\ ret'.op = "handleLogin"
             /\ calls' = calls
             /\ sessionStorage' = sessionStorage
             /\ failStreak' = failStreak
             /\ ~admin'.isAuthenticated]_vars

\* the form was submitted with no password stored, some time after the
\* application was opened, and the message is shown
C17_Witness ==
    /\ page = "admin"
    /\ ret.op = "handleLogin"
    /\ admin.authError = NotConfiguredMessage
    /\ StoredConfig.adminPassword = ""
    /\ sessionStorage = EmptyStorage
    /\ now > 0

\* a call has gone from idle to waiting for its digest in this step
CallStarted ==
    \E c \in Callers : calls[c].pc = "idle" /\ calls'[c].pc = "awaiting"

LoggedInAt(st, t) == isSessionValid(st, t).ret
\* a lockout is stored and has not run out at time t
LockedOutAt(st, t) ==
    LET attempts == getLoginAttempts(st)
    IN  attempts.lockoutUntil # NoItem /\ t < attempts.lockoutUntil[1]

LoggedIn == LoggedInAt(sessionStorage, now)
LockedOut == LockedOutAt(sessionStorage, now)
LoggedOut == ~LoggedIn /\ ~LockedOut
LoggedInAfter == LoggedInAt(sessionStorage', now')
LockedOutAfter == LockedOutAt(sessionStorage', now')
LoggedOutAfter == ~LoggedInAfter /\ ~LockedOutAfter

\* the step is one of the six transitions of the state machine
ListedTransition ==
    \/ LoggedOut /\ LoggedInAfter /\ AuthenticateReturns /\ ret'.success
    \/ LoggedOut /\ LoggedOutAfter /\ AuthenticateReturns /\ ~ret'.success
    \/ LoggedOut /\ LockedOutAfter /\ AuthenticateReturns /\ ~ret'.success
    \/ LockedOut /\ LoggedOutAfter
          /\ ret'.op \in {"tick", "isLockedOut", "authenticate", "await"}
    \/ LoggedIn /\ LoggedOutAfter /\ ret'.op \in {"tick", "isSessionValid"}
    \/ LoggedIn /\ LoggedOutAfter /\ ret'.op = "clearSession"

\* C21: every state is in exactly one of LoggedIn, LockedOut and LoggedOut,
\* the initial state is LoggedOut, and every step keeps the class or is one
\* of the six listed transitions.
C21_ThreeStates ==
    /\ LoggedOut
    /\ [](~(LoggedIn /\ LockedOut))
    /\ [][\/ /\ LoggedIn <=> LoggedInAfter
             /\ LockedOut <=> LockedOutAfter
          \/ ListedTransition]_vars

\* C21 (amended): the session and the lockout are two parts of the state.
\* Initially neither is there.  A session becomes valid only when authenticate
\* returns success, and no lockout is active then; it ends only by the
\* passage of time or by clearSession.  A lockout starts only when
\* authenticate returns a failure that brings the count to its maximum; it
\* ends only by the passage of time.
C21_SessionAndLockout ==
    /\ LoggedOut
    /\ [][/\ (~LoggedIn /\ LoggedInAfter)
                => AuthenticateReturns /\ ret'.success /\ ~LockedOutAfter
          /\ (LoggedIn /\ ~LoggedInAfter)
                => ret'.op \in {"tick", "clearSession"}
          /\ (~LockedOut /\ LockedOutAfter)
                => /\ AuthenticateReturns /\ ~ret'.success
                   /\ AttemptsAfter.count >= MAX_LOGIN_ATTEMPTS
          /\ (LockedOut /\ ~LockedOutAfter) => ret'.op = "tick"]_vars

\* a session is valid and a lockout is active at once
C21_Witness == LoggedIn /\ LockedOut /\ ret.op = "authenticate"

\* ------------------------------------------------------------------------
\* The gate with overlapping calls
\* ------------------------------------------------------------------------
\* the gate called by code that starts an authenticate call while another is
\* waiting for its digest; every call is given the digest of "correct", as
\* callers that read it from one config are
NextOverlap ==
    \/ \E c \in Callers, password \in Passwords :
          AuthenticateBegin(c, password, hashPassword("correct"), TRUE)
    \/ \E c \in Callers : AuthenticateResume(c)
    \/ IsSessionValid
    \/ ClearSession
    \/ IsLockedOut
    \/ GetLockoutRemaining
    \/ Tick

SpecOverlap == Init /\ [][NextOverlap]_vars

\* C25: an authenticate call that returns while a lockout is active mints no
\* session and does not clear the attempt counter, however the calls
\* overlap.
C25_NoBypassByOverlap ==
    [][(AuthenticateReturns /\ LockedOut)
          => /\ ~ret'.success
             /\ SessionEntriesUnchanged
             /\ sessionStorage'.loginAttempts # NoItem]_vars

\* C26: with non-overlapping calls the stored attempt count is between 0 and
\* MAX_LOGIN_ATTEMPTS.
C26_CountBounded == Attempts.count \in 0..MAX_LOGIN_ATTEMPTS

\* the count stands at its maximum after a failed call
C26_Witness ==
    /\ Attempts.count = MAX_LOGIN_ATTEMPTS
    /\ ret.op = "authenticate"
    /\ ~ret.success

\* C27: an authenticate call that returns a failure leaves adminAuth and
\* adminAuthTime as they were, and a session that was valid before the call
\* returned is valid after it.
C27_FailureKeepsSession ==
    [][(AuthenticateReturns /\ ~ret'.success)
          => /\ SessionEntriesUnchanged
             /\ LoggedIn => LoggedInAfter]_vars

\* the failure that started a lockout has left a valid session in place
C27_Witness ==
    /\ ret.op = "authenticate"
    /\ ~ret.success
    /\ failStreak.n = MAX_LOGIN_ATTEMPTS
    /\ Truthy(ret.lockoutRemaining)
    /\ LoggedIn
    /\ now > 0

\* ------------------------------------------------------------------------
\* isSessionValid over the contents sessionStorage can have
\* ------------------------------------------------------------------------
\* values of adminAuth: missing, empty, a token
AuthEntries == {NoItem, Item(""), Item("tokenA")}
\* values of adminAuthTime: missing, empty, the time 0, a time that is ahead
\* of the clock of every behaviour, digits followed by letters, no digit
AuthTimeEntries ==
    {NoItem, Item(<<>>), Item(toString(0)),
     Item(toString(4 * LOCKOUT_DURATION * (MaxTicks + 1))),
     Item(<<"1", "2", "a", "b", "c">>), Item(<<"a", "b", "c">>)}

\* a tab whose sessionStorage holds any of these entries, written by this
\* code or by other code of the same origin
InitSession ==
    /\ now = 0
    /\ ticks = 0
    /\ \E auth \in AuthEntries, authTime \in AuthTimeEntries :
          sessionStorage = [adminAuth |-> auth, adminAuthTime |-> authTime,
                            loginAttempts |-> NoItem]
    /\ calls = [c \in Callers |-> IdleCall]
    /\ ret = NoRet("load")
    /\ issuedAt = NoItem
    /\ failStreak = [n |-> 0, at |-> 0]
    /\ localStorage = EmptyLocalStorage
    /\ page = "none"
    /\ admin = NoAdmin
    /\ settings = NoSettings
    /\ pendingSave = NoItem
    /\ lastPassword = NoItem

NextSession ==
    \/ IsSessionValid
    \/ Tick

SpecSession == InitSession /\ [][NextSession]_vars

MaxPending == 2

\* configs a stored entry can carry: with the digest of a password, with a
\* password in plain text (written by a version that did not hash), without
\* a password, with a URL the schema refuses
HashedConfig ==
    [DEFAULT_CONFIG EXCEPT !.adminPassword = hashPassword(StrongPassword)]
PlainConfig == [DEFAULT_CONFIG EXCEPT !.adminPassword = StrongPassword]
HttpConfig == [HashedConfig EXCEPT !.readWebhookUrl = HttpUrl]

\* leadProcessorConfigEnc: missing, cut short so that atob throws, the
\* obfuscation of a text that is not JSON, of a valid config, and of configs
\* the schema refuses
EncEntries ==
    {NoItem,
     Item([kind |-> "truncated", value |-> HashedConfig]),
     Item([kind |-> "obfuscatedText", value |-> HashedConfig]),
     Item(encryptForStorage(JSONstringify(HashedConfig))),
     Item(encryptForStorage(JSONstringify(DEFAULT_CONFIG))),
     Item(encryptForStorage(JSONstringify(HttpConfig)))}

\* leadProcessorConfig: missing, a text that is not JSON, a valid config with
\* a plain-text password, one with a digest, a config the schema refuses
LegacyEntries ==
    {NoItem,
     Item([kind |-> "text", value |-> PlainConfig]),
     Item(JSONstringify(PlainConfig)),
     Item(JSONstringify(HashedConfig)),
     Item(JSONstringify(DEFAULT_CONFIG))}

\* the arguments saveConfig is called with: the URL keys of a runtime
\* override (main.tsx), a password, both
Partials ==
    {[submitWebhookUrl |-> OtherUrl],
     [readWebhookUrl |-> LocalUrl],
     [submitWebhookUrl |-> HttpUrl],
     [readWebhookUrl |-> NotUrl],
     [adminPassword |-> ""],
     [adminPassword |-> StrongPassword],
     [adminPassword |-> WeakPassword],
     [adminPassword |-> StrongPassword, submitWebhookUrl |-> HttpUrl]}

InitConfig ==
    /\ now = 0
    /\ ticks = 0
    /\ sessionStorage = EmptyStorage
    /\ calls = [c \in Callers |-> IdleCall]
    /\ ret = NoRet("load")
    /\ issuedAt = NoItem
    /\ failStreak = [n |-> 0, at |-> 0]
    /\ \E enc \in EncEntries, legacy \in LegacyEntries :
          localStorage = [enc |-> enc, legacy |-> legacy]
    /\ page = "none"
    /\ admin = NoAdmin
    /\ settings = NoSettings
    /\ pendingSave = <<>>
    /\ lastPassword = NoItem

\* getConfig() is called
GetConfig(overflow) ==
    LET r == readConfig(localStorage, overflow)
    IN  /\ Len(pendingSave) + Len(r.pending) <= MaxPending
        /\ localStorage' = r.storage
        /\ pendingSave' = pendingSave \o r.pending
        /\ ret' = Ret("getConfig", TRUE, r.ret, "", NoItem, "", "")
        /\ UNCHANGED <<now, ticks, sessionStorage, calls, issuedAt,
                       failStreak, page, admin, settings, lastPassword>>

\* saveConfig(config) runs up to its await, or to its end
SaveConfig(config, overflow) ==
    LET r == readConfig(localStorage, overflow)
        b == saveConfigBegin(localStorage, config)
        e == saveConfigEnd(r.storage, b.merged)
    IN  /\ Len(pendingSave) + Len(r.pending) + (IF b.await THEN 1 ELSE 0)
              <= MaxPending
        /\ IF b.await
           THEN /\ localStorage' = r.storage
                /\ pendingSave' = pendingSave \o r.pending
                       \o <<[merged |-> b.merged, config |-> config]>>
                /\ ret' = NoRet("await")
           ELSE /\ localStorage' = e.storage
                /\ pendingSave' = pendingSave \o r.pending
                /\ ret' = Ret("saveConfig", e.error = "", config, e.error,
                              NoItem, "", "")
        /\ UNCHANGED <<now, ticks, sessionStorage, calls, issuedAt,
                       failStreak, page, admin, settings, lastPassword>>

\* hashPassword of the i-th waiting saveConfig has resolved
SaveConfigResume(i) ==
    /\ i \in 1..Len(pendingSave)
    /\ LET p == pendingSave[i]
           e == saveConfigEnd(localStorage, saveConfigHashed(p.merged))
       IN  /\ localStorage' = e.storage
           /\ ret' = Ret("saveConfig", e.error = "", p.config, e.error,
                         NoItem, "", "")
    /\ pendingSave' = [j \in 1..(Len(pendingSave) - 1) |->
                          IF j < i THEN pendingSave[j] ELSE pendingSave[j + 1]]
    /\ UNCHANGED <<now, ticks, sessionStorage, calls, issuedAt, failStreak,
                   page, admin, settings, lastPassword>>

NextConfig ==
    \/ \E overflow \in Overflows : GetConfig(overflow)
    \/ \E config \in Partials, overflow \in Overflows :
          SaveConfig(config, overflow)
    \* the argument is what getConfig() returns: saveConfig(getConfig()), and
    \* handleSave of Settings with an empty password field over a digest
    \/ \E overflow \in Overflows :
          SaveConfig(getConfig(localStorage).ret, overflow)
    \/ \E i \in 1..MaxPending : SaveConfigResume(i)

SpecConfig == InitConfig /\ [][NextConfig]_vars

\* only a valid legacy entry is stored
LegacyOnly == localStorage.enc = NoItem /\ getConfig(localStorage).migrate

\* the config of the legacy entry with its password hashed
Migrated(ls) ==
    LET config == getConfig(ls).ret
    IN  IF IsHex64(config.adminPassword) THEN config
        ELSE saveConfigHashed(config)

\* C22: when only a valid legacy entry is stored, getConfig() returns its
\* config, and once no saveConfig of the migration is waiting any more the
\* config is stored under leadProcessorConfigEnc with the password hashed
\* and the legacy entry is removed.
C22_MigrationCompletes ==
    [][(ret'.op = "getConfig" /\ LegacyOnly)
          => /\ ret'.value = getConfig(localStorage).ret
             /\ pendingSave' = <<>>
                  => localStorage' =
                        [enc |-> Item(encryptForStorage(
                                          JSONstringify(Migrated(localStorage)))),
                         legacy |-> NoItem]]_vars

\* the encrypted entry is stored and cannot be decoded, parsed or validated
EncCorrupt(ls) ==
    /\ ls.enc # NoItem
    /\ LET parsed == JSONparse(decryptFromStorage(ls.enc[1]))
       IN  \/ parsed = NoItem
           \/ configSchemaIssues(Spread(DEFAULT_CONFIG, parsed[1])) # <<>>

\* the legacy entry is stored, parses and passes the schema
LegacyValid(ls) ==
    LET parsed == JSONparse(ls.legacy)
    IN  /\ parsed # NoItem
        /\ configSchemaIssues(Spread(DEFAULT_CONFIG, parsed[1])) = <<>>

\* C23: over an encrypted entry that cannot be decoded, parsed or validated
\* and no valid legacy entry, getConfig() returns the default config (empty
\* adminPassword), throws nothing and leaves localStorage as it was.
C23_CorruptReadsAsDefault ==
    [][(/\ ret'.op = "getConfig"
        /\ EncCorrupt(localStorage)
        /\ ~LegacyValid(localStorage))
          => /\ ret'.success
             /\ ret'.error = ""
             /\ ret'.value = DEFAULT_CONFIG
             /\ ret'.value.adminPassword = ""
             /\ localStorage' = localStorage]_vars

\* getConfig has returned the defaults over an encrypted entry that decodes
\* to a config the schema refuses, and over one that does not decode
C23_Witness ==
    /\ ret.op = "getConfig"
    /\ ret.value = DEFAULT_CONFIG
    /\ EncCorrupt(localStorage)
    /\ ~LegacyValid(localStorage)
    /\ localStorage.enc[1].kind \in {"truncated", "obfuscated"}
    /\ localStorage.enc[1].value # DEFAULT_CONFIG

\* the argument of saveConfig carries no new password: the key is left out,
\* or holds the stored value (saveConfig(getConfig()), and handleSave of
\* Settings with an empty password field)
KeepsPassword(config, current) ==
    "adminPassword" \in DOMAIN config
        => config.adminPassword = current.adminPassword

\* C29: while a digest is stored, a saveConfig whose argument carries no new
\* password leaves the stored adminPassword as it was, so every password is
\* accepted or refused as before.
C29_SaveKeepsCredential ==
    [][(/\ ret'.op = "saveConfig"
        /\ IsHex64(StoredConfig.adminPassword)
        /\ KeepsPassword(ret'.value, StoredConfig))
          => LET before == StoredConfig.adminPassword
                 after == getConfig(localStorage').ret.adminPassword
             IN  /\ after = before
                 /\ \A p \in SettingsPasswords :
                       verifyPassword(p, after) = verifyPassword(p, before)]_vars

\* a saveConfig that was given only a URL has stored it next to the digest
\* that was stored before
C29_Witness ==
    /\ ret.op = "saveConfig"
    /\ ret.success
    /\ "adminPassword" \notin DOMAIN ret.value
    /\ StoredConfig.submitWebhookUrl = OtherUrl
    /\ StoredConfig.adminPassword = hashPassword(StrongPassword)
    /\ verifyPassword(StrongPassword, StoredConfig.adminPassword)

\* saveConfig has thrown in this step
SaveConfigRejects == ret'.op = "saveConfig" /\ ~ret'.success

\* C30: a saveConfig that rejects leaves both entries of localStorage as
\* they were, and getConfig() returns what it returned before the call.
C30_RejectLeavesStore ==
    [][SaveConfigRejects
          => /\ localStorage' = localStorage
             /\ getConfig(localStorage').ret = StoredConfig]_vars

\* C30 (amended): a saveConfig that rejects writes nothing itself.  The
\* entries change only when the getConfig() it starts with finds a valid
\* legacy entry to migrate: that config is then stored under
\* leadProcessorConfigEnc as it is and the legacy entry is removed.  In both
\* cases getConfig() returns right afterwards what it returned before.
C30_RejectOnlyMigrates ==
    [][SaveConfigRejects
          => /\ IF getConfig(localStorage).migrate
                THEN localStorage' =
                        [enc |-> Item(encryptForStorage(
                                          JSONstringify(StoredConfig))),
                         legacy |-> NoItem]
                ELSE localStorage' = localStorage
             /\ getConfig(localStorage').ret = StoredConfig
             /\ ret'.error # ""]_vars

\* a saveConfig with a URL the schema refuses has rejected over a stored
\* digest, and the stored config is the one from before
C30_Witness ==
    /\ ret.op = "saveConfig"
    /\ ~ret.success
    /\ ret.value = [submitWebhookUrl |-> HttpUrl]
    /\ ret.error = "Validation failed: Invalid input"
    /\ localStorage = [enc |-> Item(encryptForStorage(
                                        JSONstringify(HashedConfig))),
                       legacy |-> NoItem]

\* C33: a submission of the lead form that the webhook did not answer with
\* an accepted lead (the workflow refused it in a 2xx reply, the status was
\* not 2xx, or there was no answer) leaves the user on the form with an
\* error message; the view goes to /submitted only for an accepted lead.
C33_ConfirmationOnlyWhenAccepted ==
    [][\A reply \in Replies \ {"accepted"} :
          SubmitLead(TRUE, reply)
              => /\ page' = "index"
                 /\ ~ret'.success
                 /\ ret'.error # ""]_vars

\* ------------------------------------------------------------------------
\* Admin.tsx: the leads of the list webhook as the table shows them
\* ------------------------------------------------------------------------
MaxLeads == 2

\* Lead['status'] (types.ts), the values the list webhook is documented to
\* send
CanonicalStatuses == {"pending", "processing", "completed", "failed"}

\* the characters of the status texts
Chars(s) ==
    CASE s = "pending" -> <<"p", "e", "n", "d", "i", "n", "g">>
      [] s = "processing" -> <<"p", "r", "o", "c", "e", "s", "s", "i", "n", "g">>
      [] s = "completed" -> <<"c", "o", "m", "p", "l", "e", "t", "e", "d">>
      [] s = "failed" -> <<"f", "a", "i", "l", "e", "d">>
      [] s = "Pending" -> <<"P", "e", "n", "d", "i", "n", "g">>
      [] s = "New" -> <<"N", "e", "w">>
      [] s = "yes" -> <<"y", "e", "s">>
      [] s = "Yes" -> <<"Y", "e", "s">>
      [] s = "queued" -> <<"q", "u", "e", "u", "e", "d">>
      [] s = "processed" -> <<"p", "r", "o", "c", "e", "s", "s", "e", "d">>
      [] s = "fail" -> <<"f", "a", "i", "l">>
      [] s = "process" -> <<"p", "r", "o", "c", "e", "s", "s">>
      [] s = "complete" -> <<"c", "o", "m", "p", "l", "e", "t", "e">>
      [] s = "queue" -> <<"q", "u", "e", "u", "e">>
      [] OTHER -> <<>>

\* String.prototype.toLowerCase
toLowerCase(chars) ==
    LET Lower(c) ==
            CASE c = "A" -> "a" [] c = "B" -> "b" [] c = "C" -> "c"
              [] c = "D" -> "d" [] c = "E" -> "e" [] c = "F" -> "f"
              [] c = "G" -> "g" [] c = "H" -> "h" [] c = "I" -> "i"
              [] c = "J" -> "j" [] c = "K" -> "k" [] c = "L" -> "l"
              [] c = "M" -> "m" [] c = "N" -> "n" [] c = "O" -> "o"
              [] c = "P" -> "p" [] c = "Q" -> "q" [] c = "R" -> "r"
              [] c = "S" -> "s" [] c = "T" -> "t" [] c = "U" -> "u"
              [] c = "V" -> "v" [] c = "W" -> "w" [] c = "X" -> "x"
              [] c = "Y" -> "y" [] c = "Z" -> "z" [] OTHER -> c
    IN  [i \in 1..Len(chars) |-> Lower(chars[i])]

\* String.prototype.includes
includes(chars, sub) ==
    \E i \in 1..(Len(chars) - Len(sub) + 1) :
        SubSeq(chars, i, i + Len(sub) - 1) = sub

\* a ?? b ?? c over fields that are missing (NoItem) or hold a text
Coalesce(a, b, c) == IF a # NoItem THEN a ELSE IF b # NoItem THEN b ELSE c

\* normalizeStatus of fetchLeads; raw is missing or a text
normalizeStatus(raw) ==
    LET s == toLowerCase(IF raw = NoItem THEN <<>> ELSE Chars(raw[1]))
    IN  IF includes(s, Chars("fail")) THEN "failed"
        ELSE IF \/ includes(s, Chars("process"))
                \/ includes(s, Chars("complete"))
                \/ s = Chars("yes")
             THEN "completed"
        ELSE IF includes(s, Chars("pending")) \/ includes(s, Chars("queue"))
             THEN "pending"
        ELSE "processing"

\* the status fields of a lead of the response
RawLead(Status, status, Processed) ==
    [Status |-> Status, status |-> status, Processed |-> Processed]

\* leads the list webhook can send: the documented `status` with each of its
\* four values, other spellings and other texts, no status at all, and the
\* columns Status and Processed of the sheet
RawLeads ==
    {RawLead(NoItem, Item(t), NoItem) :
        t \in CanonicalStatuses
                \cup {"Pending", "queued", "processed"}}
      \cup {RawLead(NoItem, NoItem, NoItem),
            RawLead(Item("New"), NoItem, NoItem),
            RawLead(Item("New"), Item("failed"), NoItem),
            RawLead(NoItem, NoItem, Item("yes")),
            RawLead(NoItem, NoItem, Item("Yes"))}

\* the responses: up to MaxLeads leads
LeadsData ==
    UNION {[1..n -> RawLeads] : n \in 0..MaxLeads}

\* the Admin page shows the leads view, with a session issued at time 0
InitLeads ==
    /\ now = 0
    /\ ticks = 0
    /\ sessionStorage = [adminAuth |-> Item("tokenA"),
                         adminAuthTime |-> Item(toString(0)),
                         loginAttempts |-> NoItem]
    /\ calls = [c \in Callers |-> IdleCall]
    /\ ret = NoRet("load")
    /\ issuedAt = Item(0)
    /\ failStreak = [n |-> 0, at |-> 0]
    /\ localStorage = EmptyLocalStorage
    /\ page = "admin"
    /\ admin = [NoAdmin EXCEPT !.isAuthenticated = TRUE]
    /\ settings = NoSettings
    /\ pendingSave = NoItem
    /\ lastPassword = NoItem

\* fetchLeads has received leadsData: each lead is normalised and the list is
\* set (value: per lead, the status text received and the status shown)
SetLeads(leadsData) ==
    /\ page = "admin"
    /\ admin.isAuthenticated
    /\ getConfig(localStorage).ret.readWebhookUrl # ""
    /\ ret' = Ret("setLeads", TRUE,
                  [i \in 1..Len(leadsData) |->
                      LET raw == Coalesce(leadsData[i].Status,
                                          leadsData[i].status,
                                          leadsData[i].Processed)
                      IN  [raw |-> raw, status |-> normalizeStatus(raw)]],
                  "", NoItem, "", "")
    /\ UNCHANGED <<now, ticks, sessionStorage, calls, issuedAt, failStreak,
                   appVars>>

NextLeads == \E leadsData \in LeadsData : SetLeads(leadsData)

SpecLeads == InitLeads /\ [][NextLeads]_vars

\* C34: every lead of the list is shown with one of the four statuses, and a
\* lead whose status text is one of the four is shown with that status.
C34_CanonicalPreserved ==
    ret.op = "setLeads"
        => \A i \in 1..Len(ret.value) :
              /\ ret.value[i].status \in CanonicalStatuses
              /\ (/\ ret.value[i].raw # NoItem
                  /\ ret.value[i].raw[1] \in CanonicalStatuses)
                    => ret.value[i].status = ret.value[i].raw[1]

\* ------------------------------------------------------------------------
\* encryption.ts, character by character: a text is the sequence of its
\* UTF-16 code units
\* ------------------------------------------------------------------------
MaxLen == 3

\* 'lead-hub-2024-key'
ENCRYPTION_KEY ==
    <<108, 101, 97, 100, 45, 104, 117,
      98, 45, 50, 48, 50, 52, 45, 107, 101, 121>>

\* the code units of the texts: '"', 'a', '{', U+00E9 and U+20AC
CharCodes == {34, 97, 123, 233, 8364}

\* the texts of up to MaxLen code units
Texts == UNION {[1..n -> CharCodes] : n \in 0..MaxLen}

RECURSIVE Xor(_, _)
\* a ^ b
Xor(a, b) ==
    IF a = 0 THEN b
    ELSE IF b = 0 THEN a
    ELSE (((a % 2) + (b % 2)) % 2) + 2 * Xor(a \div 2, b \div 2)

\* the loop of simpleObfuscate and simpleDeobfuscate: every code unit is
\* XORed with the key character of its position
xorWithKey(text) ==
    [i \in 1..Len(text) |->
        Xor(text[i], ENCRYPTION_KEY[((i - 1) % Len(ENCRYPTION_KEY)) + 1])]

\* a value returned, or an exception thrown
Returned(v) == [thrown |-> FALSE, value |-> v]
Thrown == [thrown |-> TRUE, value |-> <<>>]

\* btoa: the Base64 digits (0..63, and 64 for the padding '=') of a text of
\* bytes; InvalidCharacterError for a code unit above 255
btoa(text) ==
    LET n == Len(text)
        Byte(i) == IF i <= n THEN text[i] ELSE 0
        Digit(j) ==
            LET g == (j - 1) \div 4
                k == ((j - 1) % 4) + 1
                b1 == Byte(3 * g + 1)
                b2 == Byte(3 * g + 2)
                b3 == Byte(3 * g + 3)
            IN  CASE k = 1 -> b1 \div 4
                  [] k = 2 -> ((b1 % 4) * 16) + (b2 \div 16)
                  [] k = 3 -> IF 3 * g + 2 > n THEN 64
                              ELSE ((b2 % 16) * 4) + (b3 \div 64)
                  [] k = 4 -> IF 3 * g + 3 > n THEN 64 ELSE b3 % 64
    IN  IF \E i \in 1..n : text[i] > 255 THEN Thrown
        ELSE Returned([j \in 1..(4 * ((n + 2) \div 3)) |-> Digit(j)])

\* atob of a padded sequence of Base64 digits: the bytes;
\* InvalidCharacterError when the sequence is not well formed
atob(digits) ==
    LET m == Len(digits)
        pad == Cardinality({j \in 1..m : digits[j] = 64})
        n == (3 * (m \div 4)) - pad
        Value(j) == IF digits[j] = 64 THEN 0 ELSE digits[j]
        Byte(i) ==
            LET g == (i - 1) \div 3
                k == ((i - 1) % 3) + 1
                d1 == Value(4 * g + 1)
                d2 == Value(4 * g + 2)
                d3 == Value(4 * g + 3)
                d4 == Value(4 * g + 4)
            IN  CASE k = 1 -> (d1 * 4) + (d2 \div 16)
                  [] k = 2 -> ((d2 % 16) * 16) + (d3 \div 4)
                  [] k = 3 -> ((d3 % 4) * 64) + d4
    IN  IF \/ (m % 4) # 0
           \/ pad > 2
           \/ \E j \in 1..m : digits[j] = 64 /\ j <= m - pad
        THEN Thrown
        ELSE Returned([i \in 1..n |-> Byte(i)])

simpleObfuscate(text) == btoa(xorWithKey(text))

simpleDeobfuscate(obfuscated) ==
    LET decoded == atob(obfuscated)
    IN  IF decoded.thrown THEN Returned(<<>>)
        ELSE Returned(xorWithKey(decoded.value))

\* encryptForStorage and decryptFromStorage on the characters
encryptForStorageChars(data) ==
    IF data = <<>> THEN Returned(<<>>) ELSE simpleObfuscate(data)

decryptFromStorageChars(encrypted) ==
    IF encrypted = <<>> THEN Returned(<<>>) ELSE simpleDeobfuscate(encrypted)

InitCodec ==
    /\ now = 0
    /\ ticks = 0
    /\ sessionStorage = EmptyStorage
    /\ calls = [c \in Callers |-> IdleCall]
    /\ ret = NoRet("load")
    /\ issuedAt = NoItem
    /\ failStreak = [n |-> 0, at |-> 0]
    /\ localStorage = EmptyLocalStorage
    /\ page = "none"
    /\ admin = NoAdmin
    /\ settings = NoSettings
    /\ pendingSave = NoItem
    /\ lastPassword = NoItem

\* encryptForStorage(data) is called
EncryptForStorage(data) ==
    /\ LET r == encryptForStorageChars(data)
       IN  ret' = Ret("encryptForStorage", ~r.thrown,
                      [data |-> data, encrypted |-> r.value,
                       decrypted |-> <<>>],
                      IF r.thrown THEN "InvalidCharacterError" ELSE "",
                      NoItem, "", "")
    /\ UNCHANGED <<now, ticks, sessionStorage, calls, issuedAt, failStreak,
                   appVars>>

\* decryptFromStorage is called with what encryptForStorage returned
DecryptFromStorage ==
    /\ ret.op = "encryptForStorage"
    /\ ret.success
    /\ LET r == decryptFromStorageChars(ret.value.encrypted)
       IN  ret' = Ret("decryptFromStorage", ~r.thrown,
                      [ret.value EXCEPT !.decrypted = r.value],
                      "", NoItem, "", "")
    /\ UNCHANGED <<now, ticks, sessionStorage, calls, issuedAt, failStreak,
                   appVars>>

NextCodec ==
    \/ \E data \in Texts : EncryptForStorage(data)
    \/ DecryptFromStorage

SpecCodec == InitCodec /\ [][NextCodec]_vars

\* C31: encryptForStorage throws for no text, and decryptFromStorage gives
\* back the text that encryptForStorage was given.
C31_ObfuscationReversible ==
    /\ ret.op = "encryptForStorage" => ret.success
    /\ ret.op = "decryptFromStorage"
          => ret.success /\ ret.value.decrypted = ret.value.data

\* ------------------------------------------------------------------------
\* The login form with its password field
\* ------------------------------------------------------------------------
NextLockout ==
    \/ \E target \in {"index", "admin"} : Navigate(target, TRUE)
    \/ \E c \in Callers, password \in LoginPasswords : HandleLogin(c, password)
    \/ \E c \in Callers : HandleLoginResume(c)
    \/ TypePassword
    \/ LockoutPoll
    \/ Elapse

\* the Admin page as in SpecForm, with the renders that typing causes
SpecLockout == InitForm /\ [][NextLockout]_vars

\* the last render of the login form disabled its controls because of a
\* lockout, not because of a login in progress
FormLocked ==
    /\ page = "admin"
    /\ ~admin.isAuthenticated
    /\ admin.disabled
    /\ ~admin.isLoggingIn

\* C32: while the controls of the login form are disabled by a lockout the
\* polling timer is set, and the firing of the timer that finds the lockout
\* run out enables the controls and stops the timer; so with time passing
\* and the timer firing the controls are enabled again without user action.
C32_FormReEnabled ==
    /\ [](FormLocked => admin.polling)
    /\ [][(LockoutPoll /\ FormLocked /\ ~LockedOut)
             => (~admin'.disabled /\ ~admin'.polling)]_vars

====
